---- MODULE Spec2Model ----
(***************************************************************************)
(* A model of the image-forensics library: the detection aggregate         *)
(* (DetectionResult), the regions the analyzers emit, the splicing and     *)
(* tampering fusion, the analyzers' size checks, the copy-move detector    *)
(* (matching, filtering, line drawing) and the region merger.              *)
(*                                                                         *)
(* Real numbers (f64 confidences and scores) are modelled exactly, as      *)
(* integers in hundredths or as fractions [num, den]; pixel coordinates    *)
(* are the code's u32 values.                                              *)
(***************************************************************************)
EXTENDS Integers, Sequences, FiniteSets, TLC

VARIABLES
    \* detection/mod.rs: DetectionResult
    manipulations, overall_score, overall_confidence, is_manipulated,
    \* the image and configuration handed to an analyzer or detector, which one
    \* ran last, the regions it emitted and how it returned
    imgW, imgH, cfgBlock, analyzer, regions, outcome,
    \* what each constituent analyzer of a fusion returned, and the report's
    \* tampering probability; the regions that the four analyses of the
    \* splicing detector find on the image and the texture and sharpness
    \* measures of its blocks; the TamperingConfig
    calls, tampering_ability, signals, config,
    \* CopyMoveDetector: configuration, the block features of the image and the
    \* match lists returned by the executions so far
    cmCfg, cmFeatures, cmResults,
    \* draw_line: the end points, the build profile, the loop's locals
    lineEnds, lineBuild, lx, ly, lerr, linePc,
    \* the region merger: its input, its output, the output merged again, and
    \* the output for the input listed in another order
    mInput, mOnce, mTwice, mPermuted, mergePc,
    \* extract_features' worker pool: the content of the block at each position
    \* (0: too little variance), the positions handed to a worker, the result
    \* slot of each position, the order in which the workers finished
    poolBlocks, poolTaken, poolSlots, poolFinished, poolPc,
    \* the arguments of the last call of one of the library's functions (the
    \* pixels, lists and parameters handed to it) and what it returned
    callArgs, callRet

detVars == <<manipulations, overall_score, overall_confidence, is_manipulated>>
imgVars == <<imgW, imgH, cfgBlock, analyzer, regions, outcome>>
fusionVars == <<calls, tampering_ability, signals, config>>
cmVars == <<cmCfg, cmFeatures, cmResults>>
lineVars == <<lineEnds, lineBuild, lx, ly, lerr, linePc>>
mergeVars == <<mInput, mOnce, mTwice, mPermuted, mergePc>>
poolVars == <<poolBlocks, poolTaken, poolSlots, poolFinished, poolPc>>
callVars == <<callArgs, callRet>>
vars == <<detVars, imgVars, fusionVars, cmVars, lineVars, mergeVars, poolVars,
          callVars>>

(***************************************************************************)
(* Generic helpers                                                         *)
(***************************************************************************)
Min(a, b) == IF a < b THEN a ELSE b
Max(a, b) == IF a > b THEN a ELSE b
Abs(a) == IF a < 0 THEN -a ELSE a

RECURSIVE SeqSum(_)
SeqSum(s) == IF s = <<>> THEN 0 ELSE Head(s) + SeqSum(Tail(s))

SeqRange(s) == {s[i] : i \in 1..Len(s)}

(***************************************************************************)
(* detection/mod.rs                                                        *)
(* A confidence is an integer number of hundredths; overall_score is the   *)
(* fraction num/den of hundredths.                                         *)
(***************************************************************************)
MaxManipulations == 4
ConfValues == {0, 25, 30, 35, 50, 75, 100}

\* A broken from_score: the bucket boundaries are taken as inclusive.
from_score_inclusive(num, den) ==
    IF num <= 20 * den THEN "None"
    ELSE IF num <= 40 * den THEN "Low"
    ELSE IF num <= 60 * den THEN "Medium"
    ELSE IF num <= 80 * den THEN "High"
    ELSE "VeryHigh"

\* ConfidenceLevel::from_score on the fraction num/den (den > 0)
from_score(num, den) ==
    IF num < 20 * den THEN "None"
    ELSE IF num < 40 * den THEN "Low"
    ELSE IF num < 60 * den THEN "Medium"
    ELSE IF num < 80 * den THEN "High"
    ELSE "VeryHigh"

Confidences(ms) == [i \in 1..Len(ms) |-> ms[i].confidence]

\* A broken recalculation: the threshold is taken as inclusive.
recalculate_overall_inclusive(ms) ==
    IF ms = <<>>
    THEN [score |-> [num |-> 0, den |-> 1], level |-> "None", flag |-> FALSE]
    ELSE LET total == SeqSum(Confidences(ms))
             n == Len(ms)
         IN [score |-> [num |-> total, den |-> n],
             level |-> from_score(total, n),
             flag |-> total >= 30 * n]

\* DetectionResult::recalculate_overall: the three derived fields
recalculate_overall(ms) ==
    IF ms = <<>>
    THEN [score |-> [num |-> 0, den |-> 1], level |-> "None", flag |-> FALSE]
    ELSE LET total == SeqSum(Confidences(ms))
             n == Len(ms)
         IN [score |-> [num |-> total, den |-> n],
             level |-> from_score(total, n),
             flag |-> total > 30 * n]

\* DetectionResult::new
DetectionResultNew ==
    /\ manipulations = <<>>
    /\ overall_score = [num |-> 0, den |-> 1]
    /\ overall_confidence = "None"
    /\ is_manipulated = FALSE

\* The fields of a DetectionResult after pushing the manipulations ms one by one
\* (add_manipulation recalculates after every push, from the whole list).
ResultOf(ms) ==
    LET r == recalculate_overall(ms)
    IN [manipulations |-> ms, overall_score |-> r.score,
        overall_confidence |-> r.level, is_manipulated |-> r.flag]

\* DetectionResult::add_manipulation
add_manipulation(m) ==
    /\ Len(manipulations) < MaxManipulations
    /\ manipulations' = Append(manipulations, m)
    /\ LET r == recalculate_overall(manipulations')
       IN /\ overall_score' = r.score
          /\ overall_confidence' = r.level
          /\ is_manipulated' = r.flag

Kinds == {"CopyMove", "Splicing"}
NoRegion == [x |-> 0, y |-> 0, width |-> 0, height |-> 0]

AddAny ==
    /\ \E k \in Kinds, c \in ConfValues :
          add_manipulation([kind |-> k, region |-> NoRegion, confidence |-> c,
                            level |-> from_score(c, 1)])
    /\ UNCHANGED <<imgVars, fusionVars, cmVars, lineVars, mergeVars, poolVars, callVars>>

(***************************************************************************)
(* Regions (lib.rs SRegion) and the block grids the analyzers walk         *)
(***************************************************************************)
MaxFlagged == 2
Dims == {4, 8, 20, 24, 40}
BlockSizes == {8, 16}

Region(x, y, w, h) == [x |-> x, y |-> y, width |-> w, height |-> h]

\* u32::midpoint: the mean of the two, rounded down
midpoint(a, b) == (a + b) \div 2

\* for by in (0..height).step_by(bs) { for bx in (0..width).step_by(bs) .. } :
\* the block origins <<bx, by>> (W, H >= 1)
BlockGrid(W, H, bs) ==
    {<<i * bs, j * bs>> : i \in 0..((W - 1) \div bs), j \in 0..((H - 1) \div bs)}

\* The order in which those loops visit a set of blocks: by rows, then columns.
RECURSIVE RowMajor(_)
RowMajor(S) ==
    IF S = {} THEN <<>>
    ELSE LET m == CHOOSE a \in S :
                    \A b \in S : a[2] < b[2] \/ (a[2] = b[2] /\ a[1] <= b[1])
         IN <<m>> \o RowMajor(S \ {m})

\* The subsets of S with at most k elements (the blocks a threshold flags).
RECURSIVE SubsetsUpTo(_, _)
SubsetsUpTo(S, k) ==
    IF k = 0 THEN {{}}
    ELSE LET P == SubsetsUpTo(S, k - 1)
         IN P \cup {p \cup {a} : p \in P, a \in S}

Ok == [kind |-> "Ok"]
Panic == [kind |-> "Panic"]
ImageTooSmall(n) == [kind |-> "ImageTooSmall", min |-> n]

(***************************************************************************)
(* The region merger (analysis/ela.rs; the same loop is in prnu, pca, cfa  *)
(* and benford with gap = block_size / 2)                                  *)
(***************************************************************************)
ElaBlockSize == 16
ElaGap == 8

regions_adjacent(a, b, gap) ==
    ~ (\/ a.x + a.width + gap < b.x
       \/ b.x + b.width + gap < a.x
       \/ a.y + a.height + gap < b.y
       \/ b.y + b.height + gap < a.y)

merge_two_regions(a, b) ==
    LET x == Min(a.x, b.x)
        y == Min(a.y, b.y)
        x2 == Max(a.x + a.width, b.x + b.width)
        y2 == Max(a.y + a.height, b.y + b.height)
    IN Region(x, y, x2 - x, y2 - y)

\* One pass of the inner `for j` loop: every unused region adjacent to the
\* growing `current` is merged into it, in index order.
RECURSIVE MergeScan(_, _, _, _, _, _)
MergeScan(regs, current, used, j, found, gap) ==
    IF j > Len(regs) THEN [current |-> current, used |-> used, found |-> found]
    ELSE IF j \in used THEN MergeScan(regs, current, used, j + 1, found, gap)
    ELSE IF regions_adjacent(current, regs[j], gap)
         THEN MergeScan(regs, merge_two_regions(current, regs[j]),
                        used \cup {j}, j + 1, TRUE, gap)
         ELSE MergeScan(regs, current, used, j + 1, found, gap)

\* The `loop { .. if !found { break } }` around it.
RECURSIVE MergeGrow(_, _, _, _)
MergeGrow(regs, current, used, gap) ==
    LET r == MergeScan(regs, current, used, 1, FALSE, gap)
    IN IF r.found THEN MergeGrow(regs, r.current, r.used, gap) ELSE r

\* The outer `for i` loop: a grown region is pushed and never looked at again.
RECURSIVE MergeFrom(_, _, _, _, _)
MergeFrom(regs, i, used, merged, gap) ==
    IF i > Len(regs) THEN merged
    ELSE IF i \in used THEN MergeFrom(regs, i + 1, used, merged, gap)
    ELSE LET g == MergeGrow(regs, regs[i], used \cup {i}, gap)
         IN MergeFrom(regs, i + 1, g.used, Append(merged, g.current), gap)

merge_adjacent_regions(regs, gap) == MergeFrom(regs, 1, {}, <<>>, gap)

(***************************************************************************)
(* The regions each analyzer emits for a W x H image, given the set of     *)
(* blocks its threshold flags                                              *)
(***************************************************************************)
\* analysis/noise.rs find_anomlaies
find_anomlaies(W, H, bs, flagged) ==
    LET s == RowMajor(flagged)
    IN [i \in 1..Len(s) |->
          Region(s[i][1], s[i][2], Min(bs, W - s[i][1]), midpoint(bs, H - s[i][2]))]

\* The blocks of the grid clipped to the image: width and height by min.
ClippedBlocks(W, H, bs, flagged) ==
    LET s == RowMajor(flagged)
    IN [i \in 1..Len(s) |->
          Region(s[i][1], s[i][2], Min(bs, W - s[i][1]), Min(bs, H - s[i][2]))]

\* analysis/ela.rs find_suspicious_regions
find_suspicious_regions(W, H, flagged) ==
    merge_adjacent_regions(ClippedBlocks(W, H, ElaBlockSize, flagged), ElaGap)

\* detection/tampering.rs analyze_texture_consistency
analyze_texture_consistency(W, H, bs, flagged) == ClippedBlocks(W, H, bs, flagged)

\* detection/tampering.rs analyze_blur_consistency
analyze_blur_consistency(W, H, bs, flagged) ==
    LET s == RowMajor(flagged)
    IN [i \in 1..Len(s) |->
          Region(s[i][1], s[i][2], Min(bs, W - s[i][1]), midpoint(bs, H - s[i][2]))]

\* detection/tampering.rs detect_retouching: the regions of its manipulations
detect_retouching(W, H, bs, texture, blur) ==
    analyze_texture_consistency(W, H, bs, texture)
        \o analyze_blur_consistency(W, H, bs, blur)

(***************************************************************************)
(* analysis/dct_analysis.rs: the 8x8 block list and its anomalous regions  *)
(***************************************************************************)
DctBlock == 8
DctMinDim == 16
EnergyLevels == {0, 10}
OutlierEnergy == 100

dct_blocks_x(W, H) == W \div DctBlock
dct_blocks_y(W, H) == W \div DctBlock

\* extract_all_dct_coefficients, reduced to each block's energy: a block
\* wholly outside the image is read as zeros and has energy 0.
dct_energies(W, H, background, outliers) ==
    [k \in 1..(dct_blocks_x(W, H) * dct_blocks_y(W, H)) |->
        LET idx == k - 1
            by == (idx \div dct_blocks_x(W, H)) * DctBlock
        IN IF by >= H THEN 0
           ELSE IF idx \in outliers THEN OutlierEnergy
           ELSE background]

\* z_score > 2.5 with z = |e - mean| / max(std_dev, 1), in exact arithmetic:
\* with n values of sum S and sum of squares Q,
\*   n^2 var = n Q - S^2   and   n |e - mean| = |n e - S|.
z_above_2_5(e, n, S, Q) ==
    LET nvar == n * Q - S * S
        d == n * e - S
    IN IF nvar < n * n
       THEN 4 * d * d > 25 * n * n
       ELSE 4 * d * d > 25 * nvar

\* find_anomalous_regions
find_anomalous_regions(W, H, energies) ==
    LET n == Len(energies)
        S == SeqSum(energies)
        Q == SeqSum([k \in 1..n |-> energies[k] * energies[k]])
        blocks_x == W \div DctBlock
        hit == {k \in 1..n : z_above_2_5(energies[k], n, S, Q)}
        RECURSIVE Emit(_)
        Emit(k) ==
            IF k > n THEN <<>>
            ELSE (IF k \in hit
                  THEN <<Region(((k - 1) % blocks_x) * DctBlock,
                                ((k - 1) \div blocks_x) * DctBlock,
                                DctBlock, DctBlock)>>
                  ELSE <<>>) \o Emit(k + 1)
    IN IF n = 0 THEN <<>> ELSE Emit(1)

(***************************************************************************)
(* analysis/copy_move.rs: features, hash groups, matching and filtering    *)
(* A block's coefficient vector is modelled by a signature: blocks with    *)
(* the same signature have the same coefficients. Similarities are in      *)
(* hundredths.                                                             *)
(***************************************************************************)
HashOffsets == 4
Sigs == {1, 2, 3}

\* compute_hash of the coefficient vector a signature stands for: signatures
\* 1 and 2 differ in a low bit, signature 3 in a higher one.
compute_hash(sig) == CASE sig = 1 -> 4 [] sig = 2 -> 5 [] OTHER -> 8

\* calculate_similarity (Pearson correlation, clamped at 0) of two vectors:
\* 1.0 for equal vectors, and for the modelled signatures 0.95 between 1 and 2
\* and 0.5 otherwise.
calculate_similarity(s1, s2) ==
    IF s1 = s2 THEN 100
    ELSE IF {s1, s2} = {1, 2} THEN 95
    ELSE 50

\* h ^ offset for an offset below 4: the two low bits are xor-ed.
XorLow(h, o) ==
    (h \div 4) * 4
        + 2 * ((((h \div 2) % 2) + ((o \div 2) % 2)) % 2)
        + (((h % 2) + (o % 2)) % 2)

\* (f64).sqrt() as u32: the integer part of the square root
RECURSIVE isqrt_from(_, _)
isqrt_from(n, r) == IF (r + 1) * (r + 1) > n THEN r ELSE isqrt_from(n, r + 1)

isqrt(n) == isqrt_from(n, 0)

\* the block positions extract_features walks
block_positions(W, H, bs) ==
    LET step == Max(bs \div 2, 1)
    IN {<<i * step, j * step>> :
            i \in {k \in 0..W : k * step < W - bs},
            j \in {k \in 0..H : k * step < H - bs}}

\* and the order in which they are pushed
positions(W, H, bs) == RowMajor(block_positions(W, H, bs))

\* the keys of hash_groups
GroupKeys(features) ==
    {XorLow(compute_hash(features[i].sig), o) :
        i \in 1..Len(features), o \in 0..(HashOffsets - 1)}

\* hash_groups[key]: the indices pushed under key, in feature order
RECURSIVE GroupIndices(_, _, _)
GroupIndices(features, key, i) ==
    IF i > Len(features) THEN <<>>
    ELSE (IF \E o \in 0..(HashOffsets - 1) :
                XorLow(compute_hash(features[i].sig), o) = key
          THEN <<i>> ELSE <<>>) \o GroupIndices(features, key, i + 1)

\* A wrong distance: the square root rounded up instead of truncated.
distance_rounded_up(dx, dy) ==
    LET r == isqrt(dx * dx + dy * dy)
    IN IF r * r = dx * dx + dy * dy THEN r ELSE r + 1

\* ((dx * dx + dy * dy) as f64).sqrt() as u32
distance(dx, dy) == isqrt(dx * dx + dy * dy)

\* the `for i .. for j in (i + 1)..` loops over one group
RECURSIVE GroupPairs(_, _, _, _, _)
GroupPairs(features, idx, i, j, cfg) ==
    IF i > Len(idx) THEN <<>>
    ELSE IF j > Len(idx) THEN GroupPairs(features, idx, i + 1, i + 2, cfg)
    ELSE LET f1 == features[idx[i]]
             f2 == features[idx[j]]
             dx == Abs(f1.x - f2.x)
             dy == Abs(f1.y - f2.y)
             similarity == calculate_similarity(f1.sig, f2.sig)
             found ==
                IF distance(dx, dy) < cfg.min_distance THEN <<>>
                ELSE IF similarity >= cfg.similarity_threshold
                THEN <<[source |-> Region(f1.x, f1.y, cfg.block_size, cfg.block_size),
                        target |-> Region(f2.x, f2.y, cfg.block_size, cfg.block_size),
                        similarity |-> similarity]>>
                ELSE <<>>
         IN found \o GroupPairs(features, idx, i, j + 1, cfg)

\* `for indices in hash_groups.values()`, the groups visited in `order`
RECURSIVE Candidates(_, _, _)
Candidates(features, order, cfg) ==
    IF order = <<>> THEN <<>>
    ELSE LET idx == GroupIndices(features, Head(order), 1)
         IN (IF Len(idx) < 2 THEN <<>> ELSE GroupPairs(features, idx, 1, 2, cfg))
                \o Candidates(features, Tail(order), cfg)

\* CopyMoveDetector::regions_overlap
cm_regions_overlap(a, b) ==
    /\ a.x < b.x + b.width /\ a.x + a.width > b.x
    /\ a.y < b.y + b.height /\ a.y + a.height > b.y

\* matches.sort_by(|a, b| b.similarity.partial_cmp(&a.similarity)): a stable
\* sort, equal similarities keep their order
RECURSIVE InsertBySimilarity(_, _)
InsertBySimilarity(sorted, m) ==
    IF sorted = <<>> THEN <<m>>
    ELSE IF Head(sorted).similarity >= m.similarity
         THEN <<Head(sorted)>> \o InsertBySimilarity(Tail(sorted), m)
         ELSE <<m>> \o sorted

\* A filter that forgets to sort: the candidates stay in the order found.
unsorted_matches(ms, sorted) == ms

RECURSIVE SortBySimilarity(_, _)
SortBySimilarity(ms, sorted) ==
    IF ms = <<>> THEN sorted
    ELSE SortBySimilarity(Tail(ms), InsertBySimilarity(sorted, Head(ms)))

RECURSIVE KeepGreedy(_, _)
KeepGreedy(ms, filtered) ==
    IF ms = <<>> THEN filtered
    ELSE LET m == Head(ms)
             overlaps == \E k \in 1..Len(filtered) :
                \/ cm_regions_overlap(m.source, filtered[k].source)
                \/ cm_regions_overlap(m.target, filtered[k].source)
                \/ cm_regions_overlap(m.source, filtered[k].target)
                \/ cm_regions_overlap(m.target, filtered[k].target)
         IN KeepGreedy(Tail(ms), IF overlaps THEN filtered ELSE Append(filtered, m))

filter_matches(ms) == KeepGreedy(SortBySimilarity(ms, <<>>), <<>>)

find_matches(features, order, cfg) == filter_matches(Candidates(features, order, cfg))

\* The orders in which a HashMap can yield the keys. All keys of one class
\* (the four xor images of a hash) hold the same index list, so an order is
\* given up to the order of the keys inside a class: the keys of a class are
\* taken ascending, the classes interleaved in every way.
RECURSIVE Interleavings(_, _)
Interleavings(s, t) ==
    IF s = <<>> THEN {t}
    ELSE IF t = <<>> THEN {s}
    ELSE {<<Head(s)>> \o r : r \in Interleavings(Tail(s), t)}
            \cup {<<Head(t)>> \o r : r \in Interleavings(s, Tail(t))}

RECURSIVE Ascending(_)
Ascending(S) ==
    IF S = {} THEN <<>>
    ELSE LET m == CHOOSE a \in S : \A b \in S : a <= b
         IN <<m>> \o Ascending(S \ {m})

RECURSIVE OrdersOfClasses(_)
OrdersOfClasses(classes) ==
    IF classes = {} THEN {<<>>}
    ELSE LET c == CHOOSE a \in classes : TRUE
             keys == Ascending({c * 4 + o : o \in 0..(HashOffsets - 1)})
         IN UNION {Interleavings(keys, r) : r \in OrdersOfClasses(classes \ {c})}

GroupOrders(features) ==
    OrdersOfClasses({k \div 4 : k \in GroupKeys(features)})

(***************************************************************************)
(* The analyzers' analyze / detect on a W x H image                        *)
(***************************************************************************)
JpegBlock == 8
CopyMoveMinBlock == 4
CopyMoveMaxBlock == 64

NotDet == UNCHANGED <<detVars, fusionVars, cmVars, lineVars, mergeVars, poolVars, callVars>>

\* One analysis of the image handed in: no analyzer has run on it yet.
NotRun == analyzer = "none"

\* The analyzer that ran, how it returned and the regions of its result.
Returned(name, how, what) ==
    /\ analyzer' = name
    /\ outcome' = how
    /\ regions' = what
    /\ UNCHANGED <<imgW, imgH, cfgBlock>>

\* NoiseAnalyzer::analyze with with_block_size(cfgBlock): there is no size check
noise_analyze(W, H, bs, flagged) ==
    [outcome |-> Ok, regions |-> find_anomlaies(W, H, bs, flagged)]

NoiseAnalyze ==
    /\ NotRun
    /\ \E flagged \in SubsetsUpTo(BlockGrid(imgW, imgH, cfgBlock), MaxFlagged) :
          LET r == noise_analyze(imgW, imgH, cfgBlock, flagged)
          IN Returned("noise", r.outcome, r.regions)
    /\ NotDet

\* ElaAnalyzer::analyze: no size check; an encoder error is passed on by `?`
ela_analyze(W, H, encoderOk, flagged) ==
    IF ~encoderOk THEN [outcome |-> [kind |-> "ImageLoad"], regions |-> <<>>]
    ELSE [outcome |-> Ok, regions |-> find_suspicious_regions(W, H, flagged)]

ElaAnalyze ==
    /\ NotRun
    /\ \E flagged \in SubsetsUpTo(BlockGrid(imgW, imgH, ElaBlockSize), MaxFlagged),
          encoderOk \in BOOLEAN :
          LET r == ela_analyze(imgW, imgH, encoderOk, flagged)
          IN Returned("ela", r.outcome, r.regions)
    /\ NotDet

\* JpegAnalyzer::analyze. detect_double_compression evaluates height - 8, and
\* inside that loop width - 8, in u32: below 8 a debug build panics on the
\* subtraction and a release build wraps and walks the wrapped range.
jpeg_underflows(W, H) == H < JpegBlock \/ (H > JpegBlock /\ W < JpegBlock)

jpeg_outcomes(W, H, encoderOk) ==
    IF ~encoderOk THEN {[kind |-> "ImageLoad"]}
    ELSE IF jpeg_underflows(W, H) THEN {Panic, Ok}
    ELSE {Ok}

JpegAnalyze ==
    /\ NotRun
    /\ \E encoderOk \in BOOLEAN :
         \E how \in jpeg_outcomes(imgW, imgH, encoderOk) :
            Returned("jpeg", how, <<>>)
    /\ NotDet

\* DctAnalyzer::analyze
dct_analyze(W, H, background, outliers) ==
    IF W < DctMinDim \/ H < DctMinDim
    THEN [outcome |-> ImageTooSmall(DctMinDim), regions |-> <<>>]
    ELSE [outcome |-> Ok,
          regions |-> find_anomalous_regions(W, H,
                          dct_energies(W, H, background, outliers))]

DctAnalyze ==
    /\ NotRun
    /\ \E background \in EnergyLevels,
          outliers \in SubsetsUpTo(
              0..(dct_blocks_x(imgW, imgH) * dct_blocks_y(imgW, imgH) - 1),
              MaxFlagged) :
          LET r == dct_analyze(imgW, imgH, background, outliers)
          IN Returned("dct", r.outcome, r.regions)
    /\ NotDet

\* TamperingDetector::detect_retouching with block_size cfgBlock. A z-score
\* above a positive threshold needs two blocks that differ.
Retouching ==
    /\ NotRun
    /\ LET grid == BlockGrid(imgW, imgH, cfgBlock)
           both == IF Cardinality(grid) < 2 THEN {{}}
                   ELSE SubsetsUpTo({"texture", "blur"} \X grid, MaxFlagged)
       IN \E flagged \in both :
             Returned("retouching", Ok,
                 detect_retouching(imgW, imgH, cfgBlock,
                     {f[2] : f \in {g \in flagged : g[1] = "texture"}},
                     {f[2] : f \in {g \in flagged : g[1] = "blur"}}))
    /\ NotDet

\* CopyMoveDetector::new
copy_move_new(bs) ==
    IF bs < CopyMoveMinBlock \/ bs > CopyMoveMaxBlock
    THEN [kind |-> "InvalidParameter"] ELSE Ok

\* A detect that forgets its size check.
no_size_check(W, H, bs) == Ok

\* CopyMoveDetector::detect up to the size check
copy_move_check(W, H, bs) ==
    IF W < bs * 2 \/ H < bs * 2 THEN ImageTooSmall(bs * 2) ELSE Ok

\* draw_line. I32Max stands for i32::MAX at a reduced width: with end points
\* inside the image, a walk that has not reached (x1, y1) by the time a
\* coordinate leaves the image only moves further away, up to the overflow.
I32Max == 63

line_dx(ends) == Abs(ends[3] - ends[1])
line_dy(ends) == -Abs(ends[4] - ends[2])
line_sy(ends) == IF ends[2] < ends[4] THEN 1 ELSE -1
line_start(ends) ==
    [x |-> ends[1], y |-> ends[2], err |-> line_dx(ends) + line_dy(ends)]
line_at_end(st, ends) == st.x = ends[3] /\ st.y = ends[4]

\* one pass of the loop body after the break test, in unbounded integers
line_next(st, ends) ==
    LET e2 == 2 * st.err
        stepX == e2 >= line_dy(ends)
        err1 == IF stepX THEN st.err + line_dy(ends) ELSE st.err
        x1 == IF stepX THEN st.x + line_dx(ends) ELSE st.x
        stepY == e2 <= line_dx(ends)
    IN [x |-> x1,
        y |-> IF stepY THEN st.y + line_sy(ends) ELSE st.y,
        err |-> IF stepY THEN err1 + line_dx(ends) ELSE err1]

fits_i32(v) == -(I32Max + 1) <= v /\ v <= I32Max
line_overflows(st, ends) ==
    LET n == line_next(st, ends)
    IN ~(fits_i32(2 * st.err) /\ fits_i32(n.x) /\ fits_i32(n.y) /\ fits_i32(n.err))

wrap_i32(v) ==
    ((v + I32Max + 1) % (2 * (I32Max + 1))) - (I32Max + 1)

\* the walk reaches its end point before any i32 operation overflows
RECURSIVE line_reaches_end(_, _)
line_reaches_end(st, ends) ==
    IF line_at_end(st, ends) THEN TRUE
    ELSE IF line_overflows(st, ends) THEN FALSE
    ELSE line_reaches_end(line_next(st, ends), ends)

\* create_visualization: the end points of the line drawn for a match
match_line(m) ==
    <<m.source.x + m.source.width \div 2, m.source.y + m.source.height \div 2,
      m.target.x + m.target.width \div 2, m.target.y + m.target.height \div 2>>

\* create_visualization returns when every line it draws reaches its end.
create_visualization(matches) ==
    \A i \in 1..Len(matches) :
        line_reaches_end(line_start(match_line(matches[i])), match_line(matches[i]))

Overflow == [kind |-> "Overflow"]

RECURSIVE MatchRegions(_)
MatchRegions(ms) ==
    IF ms = <<>> THEN <<>>
    ELSE <<Head(ms).source, Head(ms).target>> \o MatchRegions(Tail(ms))

\* CopyMoveDetector::detect: the features are blocks of the image with equal
\* content (signature 1) at flagged positions
copy_move_detect(W, H, cfg, features, order) ==
    IF copy_move_check(W, H, cfg.block_size) # Ok
    THEN [outcome |-> copy_move_check(W, H, cfg.block_size), matches |-> <<>>]
    ELSE LET matches == find_matches(features, order, cfg)
         IN [outcome |-> IF create_visualization(matches) THEN Ok ELSE Overflow,
             matches |-> matches]

CopyMoveDetect ==
    /\ NotRun
    /\ \E md \in {cfgBlock, 3 * cfgBlock} :
       \E at \in SubsetsUpTo(SeqRange(positions(imgW, imgH, cfgBlock)), MaxFlagged) :
          LET cfg == [block_size |-> cfgBlock, similarity_threshold |-> 90,
                      min_distance |-> md]
              ps == RowMajor(at)
              features == [i \in 1..Len(ps) |->
                              [x |-> ps[i][1], y |-> ps[i][2], sig |-> 1]]
              r == copy_move_detect(imgW, imgH, cfg, features,
                       Ascending(GroupKeys(features)))
          IN Returned("copy_move", r.outcome, MatchRegions(r.matches))
    /\ NotDet

\* The analyzers whose analyze starts with
\*   if width < block_size * 2 || height < block_size * 2
\* (Benford: block_size), modelled up to that check.
CheckedAnalyzers == {"benford", "shadow", "chromatic", "pca", "resampling", "cfa", "prnu"}

checked_min_dim(a, bs) == IF a = "benford" THEN bs ELSE bs * 2

size_check(a, W, H, bs) ==
    IF W < checked_min_dim(a, bs) \/ H < checked_min_dim(a, bs)
    THEN ImageTooSmall(checked_min_dim(a, bs))
    ELSE [kind |-> "Continues"]

SizeCheck ==
    /\ NotRun
    /\ \E a \in CheckedAnalyzers :
          Returned(a, size_check(a, imgW, imgH, cfgBlock), <<>>)
    /\ NotDet

(***************************************************************************)
(* detection/splicing.rs, detection/tampering.rs and lib.rs: the fusions   *)
(***************************************************************************)
SplicingBlock == 16
MinRegionSize == 100
MaxFused == 1
RetouchScores == {28, 35, 80}
MinConfidence == 30
Likelihoods == {50, 70}
LikelihoodThreshold == 60

\* SplicingDetector::regions_overlap
splicing_regions_overlap(a, b) ==
    ~ (\/ a.x + a.width <= b.x
       \/ b.x + b.width <= a.x
       \/ a.y + a.height <= b.y
       \/ b.y + b.height <= a.y)

\* SplicingDetector::merge_regions
merge_regions(a, b) ==
    LET x == Min(a.x, b.x)
        y == Min(a.y, b.y)
        x2 == Max(a.x + a.width, b.x + b.width)
        y2 == Max(a.y + a.height, b.y + b.height)
    IN Region(x, y, x2 - x, y2 - y)

\* how many regions of a list overlap r
RECURSIVE Overlapping(_, _)
Overlapping(r, list) ==
    IF list = <<>> THEN 0
    ELSE (IF splicing_regions_overlap(r, Head(list)) THEN 1 ELSE 0)
            + Overlapping(r, Tail(list))

\* detections.sort_by(|a, b| b.1.partial_cmp(&a.1)): stable, by score descending
RECURSIVE InsertByScore(_, _)
InsertByScore(sorted, d) ==
    IF sorted = <<>> THEN <<d>>
    ELSE IF Head(sorted).score >= d.score
         THEN <<Head(sorted)>> \o InsertByScore(Tail(sorted), d)
         ELSE <<d>> \o sorted

RECURSIVE SortByScore(_, _)
SortByScore(ds, sorted) ==
    IF ds = <<>> THEN sorted
    ELSE SortByScore(Tail(ds), InsertByScore(sorted, Head(ds)))

\* merge_overlapping_detections: the inner `for j`, the `loop`, the outer `for i`
RECURSIVE DetScan(_, _, _, _, _, _)
DetScan(ds, current, max_score, used, j, found) ==
    IF j > Len(ds)
    THEN [current |-> current, max_score |-> max_score, used |-> used, found |-> found]
    ELSE IF j \in used THEN DetScan(ds, current, max_score, used, j + 1, found)
    ELSE IF splicing_regions_overlap(current, ds[j].region)
         THEN DetScan(ds, merge_regions(current, ds[j].region),
                      Max(max_score, ds[j].score), used \cup {j}, j + 1, TRUE)
         ELSE DetScan(ds, current, max_score, used, j + 1, found)

RECURSIVE DetGrow(_, _, _, _)
DetGrow(ds, current, max_score, used) ==
    LET r == DetScan(ds, current, max_score, used, 1, FALSE)
    IN IF r.found THEN DetGrow(ds, r.current, r.max_score, r.used) ELSE r

RECURSIVE DetFrom(_, _, _, _)
DetFrom(ds, i, used, merged) ==
    IF i > Len(ds) THEN merged
    ELSE IF i \in used THEN DetFrom(ds, i + 1, used, merged)
    ELSE LET g == DetGrow(ds, ds[i].region, ds[i].score, used \cup {i})
         IN DetFrom(ds, i + 1, g.used,
                IF g.current.width * g.current.height >= MinRegionSize
                THEN Append(merged, [region |-> g.current, score |-> g.max_score])
                ELSE merged)

merge_overlapping_detections(ds) ==
    IF ds = <<>> THEN ds ELSE DetFrom(SortByScore(ds, <<>>), 1, {}, <<>>)

\* combine_analyses: 0.25 for the colour region and 0.25 more for every edge,
\* noise or ELA region that overlaps it
RECURSIVE Combined(_, _, _, _)
Combined(color, edge, noise, ela) ==
    IF color = <<>> THEN <<>>
    ELSE LET c == Head(color)
             n == Overlapping(c, edge) + Overlapping(c, noise) + Overlapping(c, ela)
         IN (IF 1 + n >= 2 THEN <<[region |-> c, score |-> 25 + 25 * n]>> ELSE <<>>)
                \o Combined(Tail(color), edge, noise, ela)

\* A broken combination: a colour block is pushed once for its edge evidence
\* and once more for its noise and ELA evidence, and the list is not merged.
combine_per_signal(color, edge, noise, ela) ==
    Combined(color, edge, <<>>, <<>>) \o Combined(color, <<>>, noise, ela)

combine_analyses(color, edge, noise, ela) ==
    merge_overlapping_detections(Combined(color, edge, noise, ela))

\* analyze_color_consistency: the blocks whose histogram differs
analyze_color_consistency(W, H, flagged) == ClippedBlocks(W, H, SplicingBlock, flagged)

\* detect_edge_inconsistencies: the blocks find_unnatural_edges flags for their
\* edge regularity
detect_edge_inconsistencies(W, H, flagged) == ClippedBlocks(W, H, SplicingBlock, flagged)

Manipulation(kind, region, confidence) ==
    [kind |-> kind, region |-> region, confidence |-> confidence,
     level |-> from_score(confidence, 1)]

\* SplicingDetector::detect: both the colour and the edge regions come from
\* analyze_color_consistency; the noise and ELA analyzers run with their
\* defaults and their errors are passed on by `?`
splicing_detect(W, H, colorFlagged, noiseFlagged, elaFlagged, encoderOk) ==
    LET color_regions == analyze_color_consistency(W, H, colorFlagged)
        edge_regions == analyze_color_consistency(W, H, colorFlagged)
        noise == noise_analyze(W, H, SplicingBlock, noiseFlagged)
        ela == ela_analyze(W, H, encoderOk, elaFlagged)
        combined == combine_analyses(color_regions, edge_regions,
                                     noise.regions, ela.regions)
    IN IF noise.outcome # Ok THEN [outcome |-> noise.outcome, manipulations |-> <<>>]
       ELSE IF ela.outcome # Ok THEN [outcome |-> ela.outcome, manipulations |-> <<>>]
       ELSE [outcome |-> Ok,
             manipulations |-> [i \in 1..Len(combined) |->
                 Manipulation("Splicing", combined[i].region, combined[i].score)]]

\* The results CopyMoveDetector::new(..)?.detect(image) can have on a W x H
\* image: an error, no match, or the match of two equal blocks.
copy_move_results(W, H, cfg) ==
    IF copy_move_new(cfg.block_size) # Ok
    THEN {[outcome |-> copy_move_new(cfg.block_size), matches |-> <<>>]}
    ELSE IF copy_move_check(W, H, cfg.block_size) # Ok
    THEN {[outcome |-> copy_move_check(W, H, cfg.block_size), matches |-> <<>>]}
    ELSE LET ps == positions(W, H, cfg.block_size)
             pair(i, j) == <<[x |-> ps[i][1], y |-> ps[i][2], sig |-> 1],
                             [x |-> ps[j][1], y |-> ps[j][2], sig |-> 1]>>
         IN {copy_move_detect(W, H, cfg, <<>>, <<>>)} \cup
            {copy_move_detect(W, H, cfg, pair(i, j),
                              Ascending(GroupKeys(pair(i, j)))) :
               i \in 1..Len(ps), j \in 2..Len(ps)}

RECURSIVE CopyMoveManipulations(_)
CopyMoveManipulations(ms) ==
    IF ms = <<>> THEN <<>>
    ELSE <<Manipulation("CopyMove", Head(ms).source, Head(ms).similarity),
           Manipulation("CopyMove", Head(ms).target, Head(ms).similarity)>>
            \o CopyMoveManipulations(Tail(ms))

\* TamperingDetector::detect_retouching: the anomalies whose score reaches
\* min_confidence
retouching_manipulations(W, H, bs, flagged, score) ==
    IF score >= MinConfidence
    THEN LET rs == detect_retouching(W, H, bs,
                       {f[2] : f \in {g \in flagged : g[1] = "texture"}},
                       {f[2] : f \in {g \in flagged : g[1] = "blur"}})
         IN [i \in 1..Len(rs) |-> Manipulation("Retouching", rs[i], score)]
    ELSE <<>>

\* TamperingDetector::analyze_double_compression
analyze_double_compression(W, H, jpeg, likelihood) ==
    IF jpeg # Ok THEN [outcome |-> jpeg, manipulations |-> <<>>]
    ELSE [outcome |-> Ok,
          manipulations |-> IF likelihood > LikelihoodThreshold
                            THEN <<Manipulation("Unknown", Region(0, 0, W, H), likelihood)>>
                            ELSE <<>>]

NoFraction == [num |-> 0, den |-> 1]
NoSignals ==
    [color |-> <<>>, edge |-> <<>>, noise |-> <<>>, ela |-> <<>>,
     texture |-> <<>>, blur |-> <<>>]

\* TamperingConfig::default; sensitivity and min_confidence in hundredths
TamperingConfigDefault ==
    [block_size |-> 16, sensitivity |-> 50, min_confidence |-> MinConfidence]

Call(name, how) == [name |-> name, outcome |-> how]

\* what a chain of calls with `?` returns: the outcome of the first constituent
\* that did not return Ok, if any
RECURSIVE FirstFailure(_)
FirstFailure(cs) ==
    IF cs = <<>> THEN Ok
    ELSE IF Head(cs).outcome # Ok THEN Head(cs).outcome
    ELSE FirstFailure(Tail(cs))

\* a detector has returned: its DetectionResult on Ok
Detected(name, how, cs, ms, sg) ==
    /\ analyzer' = name
    /\ signals' = sg
    /\ outcome' = how
    /\ calls' = cs
    /\ regions' = IF how = Ok THEN [i \in 1..Len(ms) |-> ms[i].region] ELSE <<>>
    /\ LET r == ResultOf(IF how = Ok THEN ms ELSE <<>>)
       IN /\ manipulations' = r.manipulations
          /\ overall_score' = r.overall_score
          /\ overall_confidence' = r.overall_confidence
          /\ is_manipulated' = r.is_manipulated
    /\ UNCHANGED <<imgW, imgH, cfgBlock, tampering_ability, config>>
    /\ UNCHANGED <<cmVars, lineVars, mergeVars, poolVars, callVars>>

SplicingDetect ==
    /\ NotRun
    /\ LET grid == BlockGrid(imgW, imgH, SplicingBlock)
       IN \E colorFlagged \in SubsetsUpTo(grid, MaxFlagged),
             noiseFlagged \in SubsetsUpTo(grid, MaxFlagged),
             elaFlagged \in SubsetsUpTo(grid, MaxFlagged),
             edgeFlagged \in SubsetsUpTo(grid, MaxFused),
             encoderOk \in BOOLEAN :
             LET r == splicing_detect(imgW, imgH, colorFlagged, noiseFlagged,
                                      elaFlagged, encoderOk)
             IN Detected("splicing", r.outcome,
                    <<Call("noise", Ok),
                      Call("ela", ela_analyze(imgW, imgH, encoderOk, {}).outcome)>>,
                    r.manipulations,
                    [color |-> analyze_color_consistency(imgW, imgH, colorFlagged),
                     edge |-> detect_edge_inconsistencies(imgW, imgH, edgeFlagged),
                     noise |-> noise_analyze(imgW, imgH, SplicingBlock,
                                             noiseFlagged).regions,
                     ela |-> ela_analyze(imgW, imgH, encoderOk, elaFlagged).regions,
                     texture |-> <<>>, blur |-> <<>>])

\* TamperingDetector::detect with the default configuration: every
\* constituent is called with `?`
TamperingDetect ==
    /\ NotRun
    /\ LET grid == BlockGrid(imgW, imgH, SplicingBlock)
           own == BlockGrid(imgW, imgH, cfgBlock)
       IN \E cm \in copy_move_results(imgW, imgH,
                       [block_size |-> cfgBlock, similarity_threshold |-> 90,
                        min_distance |-> 50]),
             spliced \in SubsetsUpTo(grid, MaxFused),
             noisy \in SubsetsUpTo(grid, MaxFused),
             encoderOk \in BOOLEAN,
             retouched \in (IF Cardinality(own) < 2 THEN {{}}
                            ELSE SubsetsUpTo({"texture", "blur"} \X own, MaxFused)),
             score \in RetouchScores,
             likelihood \in Likelihoods :
          \E jpeg \in jpeg_outcomes(imgW, imgH, encoderOk) :
             LET sp == splicing_detect(imgW, imgH, spliced, noisy, spliced, encoderOk)
                 rt == retouching_manipulations(imgW, imgH, cfgBlock, retouched, score)
                 dc == analyze_double_compression(imgW, imgH, jpeg, likelihood)
                 cs == <<Call("copy_move", cm.outcome), Call("splicing", sp.outcome),
                         Call("retouching", Ok), Call("jpeg", dc.outcome)>>
             IN Detected("tampering", FirstFailure(cs), cs,
                    CopyMoveManipulations(cm.matches) \o sp.manipulations
                        \o rt \o dc.manipulations,
                    NoSignals)

\* lib.rs calculate_tampering_probability, as the fraction score / weight_sum.
\* max_difference is ela.max_difference, n the number of matches, the noise
\* inconsistency_score is anomalies / blocks. Weights are in tenths and every
\* term is brought to the denominator 255 * 100 * blocks.
calculate_tampering_probability(max_difference, n, anomalies, blocks, ghost) ==
    LET elaOn == max_difference > 50
        cmOn == n > 0
        noiseOn == 10 * anomalies > 3 * blocks
        score == (IF elaOn THEN 3 * Min(max_difference, 255) * 100 * blocks ELSE 0)
                 + (IF cmOn THEN 4 * Min(n, 100) * 255 * blocks ELSE 0)
                 + (IF noiseOn THEN 2 * anomalies * 255 * 100 ELSE 0)
                 + (IF ghost THEN 255 * 100 * blocks ELSE 0)
        weight_sum == ((IF elaOn THEN 3 ELSE 0) + (IF cmOn THEN 4 ELSE 0)
                       + (IF noiseOn THEN 2 ELSE 0) + (IF ghost THEN 1 ELSE 0))
                      * 255 * 100 * blocks
    IN IF weight_sum > 0 THEN [num |-> score, den |-> weight_sum] ELSE NoFraction

MaxDifferences == {40, 51, 255}
MatchDistances == {8, 50}

\* ForensicsAnalyzer::full_analysis: ela, copy-move, noise and jpeg are called
\* with `?`, the metadata with .ok()
FullAnalysis ==
    /\ NotRun
    /\ LET grid == BlockGrid(imgW, imgH, SplicingBlock)
       IN \E md \in MatchDistances, encoderOk \in BOOLEAN,
             max_difference \in MaxDifferences,
             noiseFlagged \in SubsetsUpTo(grid, MaxFlagged),
             ghost \in BOOLEAN :
          \E cm \in copy_move_results(imgW, imgH,
                       [block_size |-> cfgBlock, similarity_threshold |-> 95,
                        min_distance |-> md]),
             jpeg \in jpeg_outcomes(imgW, imgH, encoderOk) :
             LET ela == ela_analyze(imgW, imgH, encoderOk, {})
                 noise == noise_analyze(imgW, imgH, SplicingBlock, noiseFlagged)
                 cs == <<Call("ela", ela.outcome), Call("copy_move", cm.outcome),
                         Call("noise", noise.outcome), Call("jpeg", jpeg)>>
             IN /\ analyzer' = "full_analysis"
                /\ outcome' = FirstFailure(cs)
                /\ calls' = cs
                /\ regions' = <<>>
                /\ tampering_ability' =
                      IF FirstFailure(cs) = Ok
                      THEN calculate_tampering_probability(max_difference,
                               Len(cm.matches), Cardinality(noiseFlagged),
                               Cardinality(grid), ghost)
                      ELSE NoFraction
    /\ UNCHANGED <<imgW, imgH, cfgBlock, signals, config>>
    /\ UNCHANGED <<detVars, cmVars, lineVars, mergeVars, poolVars, callVars>>

(***************************************************************************)
(* Specifications. Each drives one component; the variables of the others  *)
(* stay at their idle values.                                              *)
(***************************************************************************)
ImgIdle ==
    /\ imgW = 0 /\ imgH = 0 /\ cfgBlock = 0
    /\ analyzer = "none" /\ regions = <<>> /\ outcome = [kind |-> "none"]

FusionIdle ==
    /\ calls = <<>> /\ tampering_ability = NoFraction /\ signals = NoSignals
    /\ config = TamperingConfigDefault

CmIdle == cmCfg = [block_size |-> 0] /\ cmFeatures = <<>> /\ cmResults = <<>>

LineIdle ==
    /\ lineEnds = <<0, 0, 0, 0>> /\ lineBuild = "none"
    /\ lx = 0 /\ ly = 0 /\ lerr = 0 /\ linePc = "idle"

CallIdle == callArgs = <<>> /\ callRet = <<>>
PoolIdle ==
    /\ poolBlocks = <<>> /\ poolTaken = {} /\ poolSlots = <<>>
    /\ poolFinished = <<>> /\ poolPc = "idle"
MergeIdle ==
    /\ mInput = <<>> /\ mOnce = <<>> /\ mTwice = <<>> /\ mPermuted = <<>>
    /\ mergePc = {}

\* DetectionResult
InitDetection ==
    /\ DetectionResultNew
    /\ ImgIdle /\ FusionIdle /\ CmIdle /\ LineIdle /\ MergeIdle /\ PoolIdle /\ CallIdle
NextDetection == AddAny
SpecDetection == InitDetection /\ [][NextDetection]_vars

\* The analyzers on an image
InitAnalyzers ==
    /\ imgW \in Dims /\ imgH \in Dims /\ cfgBlock \in BlockSizes
    /\ analyzer = "none" /\ regions = <<>> /\ outcome = [kind |-> "none"]
    /\ DetectionResultNew /\ FusionIdle /\ CmIdle /\ LineIdle /\ MergeIdle /\ PoolIdle /\ CallIdle
NextAnalyzers ==
    \/ NoiseAnalyze
    \/ ElaAnalyze
    \/ JpegAnalyze
    \/ DctAnalyze
    \/ Retouching
    \/ CopyMoveDetect
    \/ SizeCheck
SpecAnalyzers == InitAnalyzers /\ [][NextAnalyzers]_vars

\* CopyMoveDetector::detect, run twice on one image with one configuration
CmImage == <<8, 8>>
CmConfigs ==
    {[block_size |-> 4, similarity_threshold |-> 90, min_distance |-> md] :
        md \in {2, 3}}
MaxFeatures == 4

\* extract_features keeps the blocks whose variance reaches variance_threshold
FeatureLists(W, H, bs) ==
    UNION {
        {[i \in 1..Len(RowMajor(at)) |->
             [x |-> RowMajor(at)[i][1], y |-> RowMajor(at)[i][2], sig |-> sg[i]]] :
            sg \in [1..Cardinality(at) -> Sigs]} :
        at \in SubsetsUpTo(SeqRange(positions(W, H, bs)), MaxFeatures)}

CmDetect ==
    /\ Len(cmResults) < 2
    /\ \E order \in GroupOrders(cmFeatures) :
          cmResults' = Append(cmResults,
              copy_move_detect(imgW, imgH, cmCfg, cmFeatures, order))
    /\ UNCHANGED <<cmCfg, cmFeatures>>
    /\ UNCHANGED <<detVars, imgVars, fusionVars, lineVars, mergeVars, poolVars, callVars>>

InitCopyMove ==
    /\ imgW = CmImage[1] /\ imgH = CmImage[2]
    /\ cmCfg \in CmConfigs
    /\ cfgBlock = cmCfg.block_size
    /\ cmFeatures \in FeatureLists(imgW, imgH, cmCfg.block_size)
    /\ cmResults = <<>>
    /\ analyzer = "none" /\ regions = <<>> /\ outcome = [kind |-> "none"]
    /\ DetectionResultNew /\ FusionIdle /\ LineIdle /\ MergeIdle /\ PoolIdle /\ CallIdle
NextCopyMove == CmDetect
SpecCopyMove == InitCopyMove /\ [][NextCopyMove]_vars

\* filter_matches on an image wide enough for two matches that do not
\* overlap; the blocks differ little (signatures 1 and 2), so that all of them
\* fall into one hash group and the similarities are 1.0 and 0.95
FilterImage == <<12, 8>>

InitFilter ==
    /\ imgW = FilterImage[1] /\ imgH = FilterImage[2]
    /\ cmCfg \in {c \in CmConfigs : c.min_distance = 2}
    /\ cfgBlock = cmCfg.block_size
    /\ cmFeatures \in {f \in FeatureLists(imgW, imgH, cmCfg.block_size) :
                          \A i \in 1..Len(f) : f[i].sig \in {1, 2}}
    /\ cmResults = <<>>
    /\ analyzer = "none" /\ regions = <<>> /\ outcome = [kind |-> "none"]
    /\ DetectionResultNew /\ FusionIdle /\ LineIdle /\ MergeIdle /\ PoolIdle /\ CallIdle
SpecFilter == InitFilter /\ [][NextCopyMove]_vars

\* CopyMoveDetector::new with arbitrary arguments, then detect on an image.
\* The similarity threshold is in hundredths.
NewImages == {<<8, 8>>, <<50, 50>>}
NewBlockSizes == {3, 4, 25, 32, 64, 65}
NewThresholds == {-10, 0, 95, 100, 150}
NewDistances == {2, 50}
MaxOffset == 24

CopyMoveNew ==
    /\ NotRun
    /\ \E bs \in NewBlockSizes, th \in NewThresholds, md \in NewDistances :
          /\ cmCfg' = [block_size |-> bs, similarity_threshold |-> th,
                       min_distance |-> md]
          /\ outcome' = copy_move_new(bs)
    /\ analyzer' = "copy_move_new"
    /\ UNCHANGED <<imgW, imgH, cfgBlock, regions, cmFeatures, cmResults>>
    /\ UNCHANGED <<detVars, fusionVars, lineVars, mergeVars, poolVars, callVars>>

\* detect with the detector that new returned; the image holds no block of
\* enough variance, or two equal ones, the first at the origin and the second
\* at most MaxOffset pixels right of and below it
DetectOn ==
    /\ analyzer = "copy_move_new" /\ outcome = Ok
    /\ LET ps == block_positions(imgW, imgH, cmCfg.block_size)
           blocks == {<<>>} \cup
                     {<<[x |-> 0, y |-> 0, sig |-> 1],
                        [x |-> q[1], y |-> q[2], sig |-> 1]>> :
                          q \in {p \in ps \ {<<0, 0>>} :
                                    p[1] <= MaxOffset /\ p[2] <= MaxOffset}}
       IN \E features \in blocks :
             LET r == copy_move_detect(imgW, imgH, cmCfg, features,
                                       Ascending(GroupKeys(features)))
             IN /\ cmFeatures' = features
                /\ cmResults' = <<r>>
                /\ outcome' = r.outcome
                /\ regions' = MatchRegions(r.matches)
    /\ analyzer' = "copy_move"
    /\ UNCHANGED <<imgW, imgH, cfgBlock, cmCfg>>
    /\ UNCHANGED <<detVars, fusionVars, lineVars, mergeVars, poolVars, callVars>>

InitConstruct ==
    /\ \E im \in NewImages : imgW = im[1] /\ imgH = im[2]
    /\ cfgBlock = 0
    /\ analyzer = "none" /\ regions = <<>> /\ outcome = [kind |-> "none"]
    /\ DetectionResultNew /\ FusionIdle /\ CmIdle /\ LineIdle /\ MergeIdle /\ PoolIdle /\ CallIdle
NextConstruct ==
    \/ CopyMoveNew
    \/ DetectOn
SpecConstruct == InitConstruct /\ [][NextConstruct]_vars

\* extract_features: the positions are handed to the workers of a pool, at
\* most PoolWorkers at a time and in any order; every worker writes the result
\* of its position, and collect() gathers the results when all have finished
PoolImage == <<8, 8>>
PoolWorkers == 2
PoolContents == {0, 1, 2}
Pending == [kind |-> "pending"]
NoFeature == [kind |-> "None"]

\* extract_block_feature: None for a block whose variance is below
\* variance_threshold (content 0), the block's feature otherwise
extract_block_feature(p, content) ==
    IF content = 0 THEN NoFeature ELSE [x |-> p[1], y |-> p[2], sig |-> content]

\* filter_map: the results that are Some, in the order of the list
RECURSIVE Somes(_)
Somes(rs) ==
    IF rs = <<>> THEN <<>>
    ELSE (IF Head(rs) = NoFeature THEN <<>> ELSE <<Head(rs)>>) \o Somes(Tail(rs))

\* A broken collect: the results are pushed as the workers finish.
collect_as_finished(slots, finished) ==
    Somes([i \in 1..Len(finished) |-> slots[finished[i]]])

\* par_iter().filter_map(..).collect(): the results in the order of the
\* positions, whatever the order in which the workers finished
collect(slots, finished) == Somes(slots)

PoolInFlight == poolTaken \ SeqRange(poolFinished)

PoolTake ==
    /\ poolPc = "extract"
    /\ Cardinality(PoolInFlight) < PoolWorkers
    /\ \E i \in (1..Len(poolBlocks)) \ poolTaken : poolTaken' = poolTaken \cup {i}
    /\ UNCHANGED <<poolBlocks, poolSlots, poolFinished, poolPc>>
    /\ UNCHANGED <<detVars, imgVars, fusionVars, cmVars, lineVars, mergeVars, callVars>>

PoolFinish ==
    /\ poolPc = "extract"
    /\ \E i \in PoolInFlight :
          /\ poolSlots' = [poolSlots EXCEPT ![i] =
                 extract_block_feature(positions(imgW, imgH, cmCfg.block_size)[i],
                                       poolBlocks[i])]
          /\ poolFinished' = Append(poolFinished, i)
    /\ UNCHANGED <<poolBlocks, poolTaken, poolPc>>
    /\ UNCHANGED <<detVars, imgVars, fusionVars, cmVars, lineVars, mergeVars, callVars>>

PoolCollect ==
    /\ poolPc = "extract"
    /\ Len(poolFinished) = Len(poolBlocks)
    /\ cmFeatures' = collect(poolSlots, poolFinished)
    /\ poolPc' = "collected"
    /\ UNCHANGED <<poolBlocks, poolTaken, poolSlots, poolFinished>>
    /\ UNCHANGED <<cmCfg, cmResults>>
    /\ UNCHANGED <<detVars, imgVars, fusionVars, lineVars, mergeVars, callVars>>

\* the rest of detect: find_matches and create_visualization on the collected
\* features
PoolMatch ==
    /\ poolPc = "collected"
    /\ \E order \in GroupOrders(cmFeatures) :
          cmResults' = <<copy_move_detect(imgW, imgH, cmCfg, cmFeatures, order)>>
    /\ poolPc' = "done"
    /\ UNCHANGED <<poolBlocks, poolTaken, poolSlots, poolFinished>>
    /\ UNCHANGED <<cmCfg, cmFeatures>>
    /\ UNCHANGED <<detVars, imgVars, fusionVars, lineVars, mergeVars, callVars>>

InitPool ==
    /\ imgW = PoolImage[1] /\ imgH = PoolImage[2]
    /\ cmCfg \in {c \in CmConfigs : c.min_distance = 2}
    /\ cfgBlock = cmCfg.block_size
    /\ cmFeatures = <<>> /\ cmResults = <<>>
    /\ poolBlocks \in [1..Len(positions(imgW, imgH, cmCfg.block_size)) -> PoolContents]
    /\ poolTaken = {}
    /\ poolSlots = [i \in 1..Len(poolBlocks) |-> Pending]
    /\ poolFinished = <<>>
    /\ poolPc = "extract"
    /\ analyzer = "none" /\ regions = <<>> /\ outcome = [kind |-> "none"]
    /\ DetectionResultNew /\ FusionIdle /\ LineIdle /\ MergeIdle /\ CallIdle
NextPool ==
    \/ PoolTake
    \/ PoolFinish
    \/ PoolCollect
    \/ PoolMatch
SpecPool == InitPool /\ [][NextPool]_vars

\* draw_line between the centres of two blocks, one loop iteration at a time
LineImage == <<12, 8>>
LineBlock == 4
Builds == {"debug", "release"}

LineState == [x |-> lx, y |-> ly, err |-> lerr]

LineSet(st, pc) ==
    /\ lx' = st.x /\ ly' = st.y /\ lerr' = st.err /\ linePc' = pc
    /\ UNCHANGED <<lineEnds, lineBuild>>
    /\ UNCHANGED <<detVars, imgVars, fusionVars, cmVars, mergeVars, poolVars, callVars>>

LineBreak ==
    /\ linePc = "loop"
    /\ line_at_end(LineState, lineEnds)
    /\ LineSet(LineState, "done")

LineStep ==
    /\ linePc = "loop"
    /\ ~line_at_end(LineState, lineEnds)
    /\ ~line_overflows(LineState, lineEnds)
    /\ LineSet(line_next(LineState, lineEnds), "loop")

\* an i32 overflow in a build with overflow checks
LinePanic ==
    /\ linePc = "loop" /\ lineBuild = "debug"
    /\ ~line_at_end(LineState, lineEnds)
    /\ line_overflows(LineState, lineEnds)
    /\ LineSet(LineState, "panic")

\* and in a build without: the values wrap
LineWrap ==
    /\ linePc = "loop" /\ lineBuild = "release"
    /\ ~line_at_end(LineState, lineEnds)
    /\ line_overflows(LineState, lineEnds)
    /\ LET n == line_next(LineState, lineEnds)
       IN LineSet([x |-> wrap_i32(n.x), y |-> wrap_i32(n.y), err |-> wrap_i32(n.err)],
                  "loop")

InitLine ==
    /\ lineBuild \in Builds
    /\ \E i \in 1..Len(positions(LineImage[1], LineImage[2], LineBlock)),
          j \in 1..Len(positions(LineImage[1], LineImage[2], LineBlock)) :
          LET ps == positions(LineImage[1], LineImage[2], LineBlock)
              h == LineBlock \div 2
          IN /\ i < j
             /\ lineEnds = <<ps[i][1] + h, ps[i][2] + h, ps[j][1] + h, ps[j][2] + h>>
    /\ lx = lineEnds[1] /\ ly = lineEnds[2]
    /\ lerr = line_dx(lineEnds) + line_dy(lineEnds)
    /\ linePc = "loop"
    /\ DetectionResultNew /\ ImgIdle /\ FusionIdle /\ CmIdle /\ MergeIdle /\ PoolIdle /\ CallIdle
NextLine ==
    \/ LineBreak
    \/ LineStep
    \/ LinePanic
    \/ LineWrap
SpecLine == InitLine /\ [][NextLine]_vars /\ WF_vars(NextLine)

\* The region merger on the blocks ElaAnalyzer flags in an image
MergeImage == <<80, 48>>
MaxMergeRegions == 3

RECURSIVE ListOrders(_)
ListOrders(S) ==
    IF S = {} THEN {<<>>}
    ELSE UNION {{<<a>> \o p : p \in ListOrders(S \ {a})} : a \in S}

MergeOnce ==
    /\ "once" \notin mergePc
    /\ mOnce' = merge_adjacent_regions(mInput, ElaGap)
    /\ mergePc' = mergePc \cup {"once"}
    /\ UNCHANGED <<mInput, mTwice, mPermuted>>
    /\ UNCHANGED <<detVars, imgVars, fusionVars, cmVars, lineVars, poolVars, callVars>>

MergeTwice ==
    /\ "once" \in mergePc /\ "twice" \notin mergePc
    /\ mTwice' = merge_adjacent_regions(mOnce, ElaGap)
    /\ mergePc' = mergePc \cup {"twice"}
    /\ UNCHANGED <<mInput, mOnce, mPermuted>>
    /\ UNCHANGED <<detVars, imgVars, fusionVars, cmVars, lineVars, poolVars, callVars>>

MergePermuted ==
    /\ "permuted" \notin mergePc
    /\ \E p \in ListOrders(1..Len(mInput)) :
          mPermuted' = merge_adjacent_regions(
                           [i \in 1..Len(mInput) |-> mInput[p[i]]], ElaGap)
    /\ mergePc' = mergePc \cup {"permuted"}
    /\ UNCHANGED <<mInput, mOnce, mTwice>>
    /\ UNCHANGED <<detVars, imgVars, fusionVars, cmVars, lineVars, poolVars, callVars>>

InitMerge ==
    /\ \E flagged \in SubsetsUpTo(
            BlockGrid(MergeImage[1], MergeImage[2], ElaBlockSize), MaxMergeRegions) :
          mInput = ClippedBlocks(MergeImage[1], MergeImage[2], ElaBlockSize, flagged)
    /\ mOnce = <<>> /\ mTwice = <<>> /\ mPermuted = <<>> /\ mergePc = {}
    /\ DetectionResultNew /\ ImgIdle /\ FusionIdle /\ CmIdle /\ LineIdle /\ PoolIdle /\ CallIdle
NextMerge ==
    \/ MergeOnce
    \/ MergeTwice
    \/ MergePermuted
SpecMerge == InitMerge /\ [][NextMerge]_vars

\* BenfordAnalyzer's merger (analysis/benford_analysis.rs): the loop of the
\* other mergers, with its own merge_two_regions, whose lower edge is computed
\* from a.y + a.width
benford_merge_two_regions(a, b) ==
    LET x == Min(a.x, b.x)
        y == Min(a.y, b.y)
        x2 == Max(a.x + a.width, b.x + b.width)
        y2 == Max(a.y + a.width, b.y + b.height)
    IN Region(x, y, x2 - x, y2 - y)

RECURSIVE BenfordScan(_, _, _, _, _, _)
BenfordScan(regs, current, used, j, found, gap) ==
    IF j > Len(regs) THEN [current |-> current, used |-> used, found |-> found]
    ELSE IF j \in used THEN BenfordScan(regs, current, used, j + 1, found, gap)
    ELSE IF regions_adjacent(current, regs[j], gap)
         THEN BenfordScan(regs, benford_merge_two_regions(current, regs[j]),
                          used \cup {j}, j + 1, TRUE, gap)
         ELSE BenfordScan(regs, current, used, j + 1, found, gap)

RECURSIVE BenfordGrow(_, _, _, _)
BenfordGrow(regs, current, used, gap) ==
    LET r == BenfordScan(regs, current, used, 1, FALSE, gap)
    IN IF r.found THEN BenfordGrow(regs, r.current, r.used, gap) ELSE r

RECURSIVE BenfordFrom(_, _, _, _, _)
BenfordFrom(regs, i, used, merged, gap) ==
    IF i > Len(regs) THEN merged
    ELSE IF i \in used THEN BenfordFrom(regs, i + 1, used, merged, gap)
    ELSE LET g == BenfordGrow(regs, regs[i], used \cup {i}, gap)
         IN BenfordFrom(regs, i + 1, g.used, Append(merged, g.current), gap)

benford_merge_regions(regs, gap) == BenfordFrom(regs, 1, {}, <<>>, gap)

\* The mergers of two analyzers on the blocks they flag in an image; both
\* analyzers are configured with a block size of 4, so that the gap is 2.
\* Benford's blocks lie half a block apart and end before the image border,
\* PCA's blocks tile the image.
BoxImage == <<14, 12>>
BoxConfig == [block_size |-> 4]

BenfordMerge ==
    /\ NotRun
    /\ \E flagged \in SubsetsUpTo(block_positions(imgW, imgH, cfgBlock),
                                   MaxMergeRegions) :
          /\ mInput' = ClippedBlocks(imgW, imgH, cfgBlock, flagged)
          /\ mOnce' = benford_merge_regions(mInput', cfgBlock \div 2)
    /\ regions' = mOnce'
    /\ analyzer' = "benford"
    /\ outcome' = Ok
    /\ UNCHANGED <<imgW, imgH, cfgBlock, mTwice, mPermuted, mergePc>>
    /\ UNCHANGED <<detVars, fusionVars, cmVars, lineVars, poolVars, callVars>>

PcaMerge ==
    /\ NotRun
    /\ \E flagged \in SubsetsUpTo(BlockGrid(imgW, imgH, cfgBlock), MaxMergeRegions) :
          /\ mInput' = ClippedBlocks(imgW, imgH, cfgBlock, flagged)
          /\ mOnce' = merge_adjacent_regions(mInput', cfgBlock \div 2)
    /\ regions' = mOnce'
    /\ analyzer' = "pca"
    /\ outcome' = Ok
    /\ UNCHANGED <<imgW, imgH, cfgBlock, mTwice, mPermuted, mergePc>>
    /\ UNCHANGED <<detVars, fusionVars, cmVars, lineVars, poolVars, callVars>>

InitBox ==
    /\ imgW = BoxImage[1] /\ imgH = BoxImage[2]
    /\ cfgBlock = BoxConfig.block_size
    /\ analyzer = "none" /\ regions = <<>> /\ outcome = [kind |-> "none"]
    /\ DetectionResultNew /\ FusionIdle /\ CmIdle /\ LineIdle /\ MergeIdle /\ PoolIdle /\ CallIdle
NextBox ==
    \/ BenfordMerge
    \/ PcaMerge
SpecBox == InitBox /\ [][NextBox]_vars

DefaultBlock == 16

\* detect_retouching from the measures of the blocks. ts lists the texture (or
\* sharpness) measure of every block; with n blocks, mean m and standard
\* deviation sd, block i has z = |ts[i] - m| / sd, that is
\* z^2 = n * D(i)^2 / Q for D(i) = n * ts[i] - sum and Q the sum of all D^2.
Deviation(ts, i) == Len(ts) * ts[i] - SeqSum(ts)
SquaredDeviations(ts) ==
    SeqSum([j \in 1..Len(ts) |-> Deviation(ts, j) * Deviation(ts, j)])

\* z_score > c / 200 (c in halves of a hundredth); the z_score is 0.0 when
\* std_dev is 0
z_score_above(ts, i, c) ==
    /\ SquaredDeviations(ts) > 0
    /\ Len(ts) * Deviation(ts, i) * Deviation(ts, i) * 40000
          > c * c * SquaredDeviations(ts)

\* score = (z_score / 5.0).min(1.0), in hundredths and rounded down
anomaly_score(ts, i) ==
    Min(isqrt((400 * Len(ts) * Deviation(ts, i) * Deviation(ts, i))
                 \div SquaredDeviations(ts)), 100)

\* score >= min_confidence, on the exact score
score_reaches(ts, i, mc) ==
    /\ mc <= 100
    /\ 400 * Len(ts) * Deviation(ts, i) * Deviation(ts, i)
          >= mc * mc * SquaredDeviations(ts)

\* the manipulations of one of the two loops of detect_retouching: the
\* anomalies (z above factor / 2 times the sensitivity) whose score reaches
\* min_confidence
RECURSIVE RetouchingOf(_, _, _, _, _)
RetouchingOf(blocks, ts, i, factor, cfg) ==
    IF i > Len(ts) THEN <<>>
    ELSE (IF /\ z_score_above(ts, i, factor * cfg.sensitivity)
             /\ score_reaches(ts, i, cfg.min_confidence)
          THEN <<Manipulation("Retouching", blocks[i], anomaly_score(ts, i))>>
          ELSE <<>>)
            \o RetouchingOf(blocks, ts, i + 1, factor, cfg)

\* detect_retouching: the texture anomalies (z > 2.0 * sensitivity), then the
\* blur anomalies (z > 2.5 * sensitivity)
detect_retouching_measured(W, H, cfg, texture, blur) ==
    LET grid == BlockGrid(W, H, cfg.block_size)
    IN RetouchingOf(analyze_texture_consistency(W, H, cfg.block_size, grid),
                    texture, 1, 4, cfg)
        \o RetouchingOf(analyze_blur_consistency(W, H, cfg.block_size, grid),
                        blur, 1, 5, cfg)

RetouchImage == <<32, 32>>
Measures == {0, 8, 10}
Sharpnesses == {0, 10}
Sensitivities == {50, 80}
MinConfidences == {0, 30}

DetectRetouching ==
    /\ NotRun
    /\ LET n == Cardinality(BlockGrid(imgW, imgH, config.block_size))
       IN \E texture \in [1..n -> Measures], blur \in [1..n -> Sharpnesses] :
             Detected("retouching", Ok, <<>>,
                 detect_retouching_measured(imgW, imgH, config, texture, blur),
                 [NoSignals EXCEPT !.texture = texture, !.blur = blur])

InitRetouch ==
    /\ imgW = RetouchImage[1] /\ imgH = RetouchImage[2]
    /\ cfgBlock = DefaultBlock
    /\ analyzer = "none" /\ regions = <<>> /\ outcome = [kind |-> "none"]
    /\ calls = <<>> /\ tampering_ability = NoFraction /\ signals = NoSignals
    /\ \E s \in Sensitivities, mc \in MinConfidences :
          config = [block_size |-> DefaultBlock, sensitivity |-> s,
                    min_confidence |-> mc]
    /\ DetectionResultNew /\ CmIdle /\ LineIdle /\ MergeIdle /\ PoolIdle /\ CallIdle
NextRetouch == DetectRetouching
SpecRetouch == InitRetouch /\ [][NextRetouch]_vars

\* The fusions on an image, with the default block size of their configurations
FusionImages == {<<4, 4>>, <<20, 20>>, <<16, 48>>, <<32, 32>>}

InitFusion ==
    /\ \E im \in FusionImages : imgW = im[1] /\ imgH = im[2]
    /\ cfgBlock = DefaultBlock
    /\ analyzer = "none" /\ regions = <<>> /\ outcome = [kind |-> "none"]
    /\ DetectionResultNew /\ FusionIdle /\ CmIdle /\ LineIdle /\ MergeIdle /\ PoolIdle /\ CallIdle
NextFusion ==
    \/ SplicingDetect
    \/ TamperingDetect
    \/ FullAnalysis
SpecFusion == InitFusion /\ [][NextFusion]_vars

(***************************************************************************)
(* Functions of the analyzers, called on small inputs                      *)
(***************************************************************************)
\* a function has been called with args and has returned ret
Called(name, args, ret) ==
    /\ NotRun
    /\ analyzer' = name
    /\ callArgs' = args
    /\ callRet' = ret
    /\ UNCHANGED <<imgW, imgH, cfgBlock, regions, outcome>>
    /\ UNCHANGED <<detVars, fusionVars, cmVars, lineVars, mergeVars, poolVars>>

InitCalls ==
    /\ DetectionResultNew /\ ImgIdle /\ FusionIdle /\ CmIdle /\ LineIdle
    /\ MergeIdle /\ PoolIdle /\ CallIdle

RECURSIVE SeqMax(_)
SeqMax(s) == IF s = <<>> THEN 0 ELSE Max(Head(s), SeqMax(Tail(s)))

\* the lists of 1 to n elements of S
SeqsUpTo(S, n) == UNION {[1..k -> S] : k \in 1..n}

\* ElaAnalyzer::analyze, the statistics. A pixel is given by the sum s of its
\* three channel differences, so that gray_diff = s / 3; the amplification is
\* in tenths. The difference map holds (gray_diff * amplification).min(255.0)
\* as u8.
MaxPixels == 3
DiffSums == {0, 3, 9, 90, 765}
Amplifications == {5, 10, 100}

difference_map(ds, amp) ==
    [i \in 1..Len(ds) |-> Min((ds[i] * amp) \div 30, 255)]

\* max_difference: the fold of f64::max over differences
ela_max_difference(ds) == [num |-> SeqMax(ds), den |-> 3]

\* mean_difference: the sum over difference_map divided by differences.len()
ela_mean_difference(ds, amp) ==
    [num |-> SeqSum(difference_map(ds, amp)), den |-> Len(ds)]

\* variance: the mean of (d - mean_difference)^2 over differences, with
\* d = ds[i] / 3 and mean_difference = m / n; std_deviation is its square root
ela_variance(ds, amp) ==
    LET n == Len(ds)
        m == SeqSum(difference_map(ds, amp))
    IN [num |-> SeqSum([i \in 1..n |-> (n * ds[i] - 3 * m) * (n * ds[i] - 3 * m)]),
        den |-> 9 * n * n * n]

ElaStatistics ==
    \E ds \in SeqsUpTo(DiffSums, MaxPixels), amp \in Amplifications :
        Called("ela_statistics", [differences |-> ds, amplification |-> amp],
               [max_difference |-> ela_max_difference(ds),
                mean_difference |-> ela_mean_difference(ds, amp),
                variance |-> ela_variance(ds, amp)])

SpecEla == InitCalls /\ [][ElaStatistics]_vars

\* JpegAnalyzer::detect_ghost. avg maps every swept quality to the average
\* difference of the image and its recompression at that quality; the
\* difference map computed at quality q is named by q.
GhostQualities == {60, 65, 70, 75, 80, 85, 90, 95}
AverageDifferences == {2, 4, 7}
GhostLimit == 5
F64Max == 1000

\* the loop from the quality q on: min_diff, ghost_quality and min_ghost_map
\* (0 for the blank map of GrayImage::new)
RECURSIVE ghost_sweep(_, _, _, _)
ghost_sweep(avg, q, min_diff, ghost_quality) ==
    IF q \notin GhostQualities
    THEN [min_diff |-> min_diff, ghost_quality |-> ghost_quality,
          min_ghost_map |-> ghost_quality]
    ELSE IF avg[q] < min_diff /\ q < 95
         THEN ghost_sweep(avg, q + 5, avg[q], q)
         ELSE ghost_sweep(avg, q + 5, min_diff, ghost_quality)

detect_ghost(avg) ==
    LET r == ghost_sweep(avg, 60, F64Max, 0)
    IN [ghost_detected |-> /\ r.ghost_quality > 0
                           /\ r.ghost_quality < 90
                           /\ r.min_diff < GhostLimit,
        ghost_map |-> r.min_ghost_map]

\* JpegAnalyzer::analyze: ghost_map is Some only if ghost_detected
jpeg_ghost(avg) ==
    LET g == detect_ghost(avg)
    IN [ghost_detected |-> g.ghost_detected,
        ghost_map |-> IF g.ghost_detected
                      THEN [some |-> TRUE, quality |-> g.ghost_map]
                      ELSE [some |-> FALSE]]

JpegGhost ==
    \E avg \in [GhostQualities -> AverageDifferences] :
        Called("jpeg_ghost", avg, jpeg_ghost(avg))

SpecGhost == InitCalls /\ [][JpegGhost]_vars

\* DctAnalyzer: the blocks extract_all_dct_coefficients transforms, in the
\* order of the coefficient list, and the regions find_anomalous_regions
\* reports for them
DctImages == {16, 20, 24, 32, 40} \X {16, 20, 24, 32, 40}

dct_block_positions(W, H) ==
    [k \in 1..(dct_blocks_x(W, H) * dct_blocks_y(W, H)) |->
        <<((k - 1) % dct_blocks_x(W, H)) * DctBlock,
          ((k - 1) \div dct_blocks_x(W, H)) * DctBlock>>]

DctBlocks ==
    \E im \in DctImages, background \in EnergyLevels :
    \E outliers \in SubsetsUpTo(
           0..(dct_blocks_x(im[1], im[2]) * dct_blocks_y(im[1], im[2]) - 1), 1) :
        Called("dct_blocks", [width |-> im[1], height |-> im[2]],
               [blocks |-> dct_block_positions(im[1], im[2]),
                regions |-> find_anomalous_regions(im[1], im[2],
                                dct_energies(im[1], im[2], background, outliers))])

SpecDct == InitCalls /\ [][DctBlocks]_vars

\* image_utils.rs rgb_to_gray on one pixel. The weights are in thousandths.
\* `as u8` truncates the f64 sum; for the grey pixels of FallsShort the sum
\* computed in f64, in the order of the expression, lies just below the exact
\* integer (0.299 + 0.587 + 0.114 gives 0.9999999999999999).
Channels == {0, 1, 2, 128, 255}
FallsShort == {<<1, 1, 1>>, <<2, 2, 2>>, <<128, 128, 128>>}

rgb_to_gray(R, G, B) ==
    IF <<R, G, B>> \in FallsShort
    THEN ((299 * R + 587 * G + 114 * B) \div 1000) - 1
    ELSE (299 * R + 587 * G + 114 * B) \div 1000

RgbToGray ==
    \E R \in Channels, G \in Channels, B \in Channels :
        Called("rgb_to_gray", <<R, G, B>>, rgb_to_gray(R, G, B))

SpecGray == InitCalls /\ [][RgbToGray]_vars

\* PcaAnalyzer::compute_pca, the subsampling of the centred patches
MaxSamples == 5000
PatchCounts == (1..100) \cup {4999, 5000, 5001, 7500, 9999, 10000, 10001, 14999}

\* the indices whose patch is accumulated into the covariance
pca_sampled(n_samples) ==
    LET max_samples == Min(MaxSamples, n_samples)
        step == n_samples \div max_samples
    IN {idx \in 0..(n_samples - 1) : idx % step = 0}

ComputePca ==
    \E n \in PatchCounts :
        Called("compute_pca", n,
               [step |-> n \div Min(MaxSamples, n),
                sample_count |-> Cardinality(pca_sampled(n))])

SpecPca == InitCalls /\ [][ComputePca]_vars

\* The Sobel gradients at an interior pixel; p maps the offsets <<dx, dy>> of
\* its 3x3 neighbourhood to the grey values (the clamping of the coordinates
\* in splicing.rs and shadow_analysis.rs has no effect in the interior)
Offsets == (-1..1) \X (-1..1)
GreyValues == {0, 100}

\* analysis/luminance_gradient.rs
luminance_sobel_x(p) ==
    - p[<<-1, -1>>] - 2 * p[<<-1, 0>>] - p[<<-1, 1>>]
        + p[<<1, -1>>] - 2 * p[<<1, 0>>] + p[<<1, 1>>]
luminance_sobel_y(p) ==
    - p[<<-1, -1>>] - 2 * p[<<0, -1>>] - p[<<1, -1>>]
        + p[<<-1, 1>>] + 2 * p[<<0, 1>>] + p[<<1, 1>>]

\* detection/splicing.rs
splicing_sobel_x(p) ==
    - p[<<-1, -1>>] - 2 * p[<<-1, 0>>] - p[<<-1, 1>>]
        + p[<<1, -1>>] + 2 * p[<<1, 0>>] + p[<<1, 1>>]
splicing_sobel_y(p) ==
    - p[<<-1, -1>>] - 2 * p[<<0, -1>>] - p[<<1, -1>>]
        + p[<<-1, 1>>] + 2 * p[<<0, 1>>] + p[<<1, 1>>]

\* analysis/shadow_analysis.rs
shadow_sobel_x(p) ==
    - p[<<-1, -1>>] - 2 * p[<<-1, 0>>] - p[<<-1, 1>>]
        + p[<<1, -1>>] + 2 * p[<<1, 0>>] + p[<<1, 1>>]
shadow_sobel_y(p) ==
    - p[<<-1, -1>>] - 2 * p[<<0, -1>>] - p[<<1, -1>>]
        + p[<<-1, 1>>] + 2 * p[<<0, 1>>] + p[<<1, 1>>]

Sobel ==
    \E p \in [Offsets -> GreyValues] :
        Called("sobel", p,
               [luminance |-> <<luminance_sobel_x(p), luminance_sobel_y(p)>>,
                splicing |-> <<splicing_sobel_x(p), splicing_sobel_y(p)>>,
                shadow |-> <<shadow_sobel_x(p), shadow_sobel_y(p)>>])

SpecSobel == InitCalls /\ [][Sobel]_vars

(***************************************************************************)
(* ShadowAnalyzer::analyze_shadow_regions.  The cleaned shadow mask is the *)
(* set of its non-zero pixels, the gradient magnitude image is the set of  *)
(* pixels whose magnitude exceeds gradient_threshold.                      *)
(***************************************************************************)
ShadowImage == <<3, 3>>

ShadowConfigs == {[block_size |-> 4, min_shadow_size |-> 1],
                  [block_size |-> 4, min_shadow_size |-> 8],
                  [block_size |-> 2, min_shadow_size |-> 4]}

ShadowPixels(W, H) == (0..(W - 1)) \X (0..(H - 1))

GradientImages(W, H) == {{}, {<<1, 1>>}, ShadowPixels(W, H)}

is_shadow_edge(mask, W, H, p) ==
    \E d \in Offsets \ {<<0, 0>>} :
        /\ <<p[1] + d[1], p[2] + d[2]>> \in ShadowPixels(W, H)
        /\ <<p[1] + d[1], p[2] + d[2]>> \notin mask

four_neighbours(p, q) ==
    \/ p[2] = q[2] /\ (p[1] = q[1] + 1 \/ q[1] = p[1] + 1)
    \/ p[1] = q[1] /\ (p[2] = q[2] + 1 \/ q[2] = p[2] + 1)

\* The pixels the stack of analyze_single_shadow_region marks: those of
\* `open` reached from `frontier` through 4-neighbours.
RECURSIVE shadow_fill(_, _, _)
shadow_fill(open, seen, frontier) ==
    IF frontier = {} THEN seen
    ELSE shadow_fill(open, seen \union frontier,
             {q \in open \ (seen \union frontier) :
                 \E p \in frontier : four_neighbours(p, q)})

shadow_bbox(pixels) ==
    LET min_x == CHOOSE x \in {p[1] : p \in pixels} : \A p \in pixels : x <= p[1]
        max_x == CHOOSE x \in {p[1] : p \in pixels} : \A p \in pixels : x >= p[1]
        min_y == CHOOSE y \in {p[2] : p \in pixels} : \A p \in pixels : y <= p[2]
        max_y == CHOOSE y \in {p[2] : p \in pixels} : \A p \in pixels : y >= p[2]
    IN [x |-> min_x, y |-> min_y,
        width |-> max_x - min_x + 1, height |-> max_y - min_y + 1]

analyze_single_shadow_region(mask, strong, cfg, W, H, start, visited) ==
    LET filled == shadow_fill(mask \ visited, {}, {start})
        edge_directions ==
            {p \in filled : is_shadow_edge(mask, W, H, p) /\ p \in strong}
    IN [visited |-> visited \union filled,
        some |-> ~(Cardinality(filled) < cfg.min_shadow_size
                   \/ edge_directions = {}),
        region |-> shadow_bbox(filled)]

\* The starting points of the two step_by loops, row by row.
shadow_starts(W, H, step) ==
    LET nx == (W - 1) \div step + 1
        ny == (H - 1) \div step + 1
    IN [k \in 1..(nx * ny) |-> <<((k - 1) % nx) * step, ((k - 1) \div nx) * step>>]

RECURSIVE ShadowScan(_, _, _, _, _, _, _, _, _)
ShadowScan(mask, strong, cfg, W, H, starts, k, visited, found) ==
    IF k > Len(starts) THEN found
    ELSE IF starts[k] \in mask /\ starts[k] \notin visited
    THEN LET info == analyze_single_shadow_region(mask, strong, cfg, W, H,
                                                  starts[k], visited)
             kept == /\ info.some
                     /\ \/ info.region.width >= cfg.min_shadow_size \div 2
                        \/ info.region.height >= cfg.min_shadow_size \div 2
         IN ShadowScan(mask, strong, cfg, W, H, starts, k + 1, info.visited,
                       IF kept THEN Append(found, info.region) ELSE found)
    ELSE ShadowScan(mask, strong, cfg, W, H, starts, k + 1, visited, found)

analyze_shadow_regions(mask, strong, cfg, W, H) ==
    ShadowScan(mask, strong, cfg, W, H,
               shadow_starts(W, H, cfg.block_size \div 2), 1, {}, <<>>)

AnalyzeShadowRegions ==
    \E mask \in SUBSET ShadowPixels(ShadowImage[1], ShadowImage[2]),
       strong \in GradientImages(ShadowImage[1], ShadowImage[2]),
       cfg \in ShadowConfigs :
        Called("analyze_shadow_regions",
               [mask |-> mask, strong |-> strong, config |-> cfg,
                width |-> ShadowImage[1], height |-> ShadowImage[2]],
               analyze_shadow_regions(mask, strong, cfg,
                                      ShadowImage[1], ShadowImage[2]))

SpecShadow == InitCalls /\ [][AnalyzeShadowRegions]_vars

(***************************************************************************)
(* Visualizer::draw_line, called by visualize_copy_move with the centres   *)
(* of a match's source and target regions.                                 *)
(***************************************************************************)
vis_sx(ends) == IF ends[1] < ends[3] THEN 1 ELSE -1
vis_sy(ends) == IF ends[2] < ends[4] THEN 1 ELSE -1
vis_line_start(ends) ==
    [x |-> ends[1], y |-> ends[2], err |-> line_dx(ends) * line_dy(ends)]

\* one pass of the loop body after the break test, in unbounded integers
vis_line_next(st, ends) ==
    LET e2 == 2 * st.err
        stepX == e2 >= line_dy(ends)
        err1 == IF stepX THEN st.err + line_dy(ends) ELSE st.err
        stepY == e2 <= line_dx(ends)
    IN [x |-> IF stepX THEN st.x + vis_sx(ends) ELSE st.x,
        y |-> IF stepY THEN st.y + vis_sy(ends) ELSE st.y,
        err |-> IF stepY THEN err1 + line_dx(ends) ELSE err1]

vis_line_overflows(st, ends) ==
    LET n == vis_line_next(st, ends)
    IN ~(fits_i32(2 * st.err) /\ fits_i32(n.x) /\ fits_i32(n.y) /\ fits_i32(n.err))

VisLineBreak ==
    /\ linePc = "loop"
    /\ line_at_end(LineState, lineEnds)
    /\ LineSet(LineState, "done")

VisLineStep ==
    /\ linePc = "loop"
    /\ ~line_at_end(LineState, lineEnds)
    /\ ~vis_line_overflows(LineState, lineEnds)
    /\ LineSet(vis_line_next(LineState, lineEnds), "loop")

\* an i32 overflow in a build with overflow checks
VisLinePanic ==
    /\ linePc = "loop" /\ lineBuild = "debug"
    /\ ~line_at_end(LineState, lineEnds)
    /\ vis_line_overflows(LineState, lineEnds)
    /\ LineSet(LineState, "panic")

\* and in a build without: the values wrap
VisLineWrap ==
    /\ linePc = "loop" /\ lineBuild = "release"
    /\ ~line_at_end(LineState, lineEnds)
    /\ vis_line_overflows(LineState, lineEnds)
    /\ LET n == vis_line_next(LineState, lineEnds)
       IN LineSet([x |-> wrap_i32(n.x), y |-> wrap_i32(n.y), err |-> wrap_i32(n.err)],
                  "loop")

\* A match pairs any two regions of the result, in either order.
InitVisLine ==
    /\ lineBuild \in Builds
    /\ \E i \in 1..Len(positions(LineImage[1], LineImage[2], LineBlock)),
          j \in 1..Len(positions(LineImage[1], LineImage[2], LineBlock)) :
          LET ps == positions(LineImage[1], LineImage[2], LineBlock)
          IN lineEnds = match_line([source |-> [x |-> ps[i][1], y |-> ps[i][2],
                                                width |-> LineBlock, height |-> LineBlock],
                                    target |-> [x |-> ps[j][1], y |-> ps[j][2],
                                                width |-> LineBlock, height |-> LineBlock]])
    /\ lx = vis_line_start(lineEnds).x /\ ly = vis_line_start(lineEnds).y
    /\ lerr = vis_line_start(lineEnds).err
    /\ linePc = "loop"
    /\ DetectionResultNew /\ ImgIdle /\ FusionIdle /\ CmIdle /\ MergeIdle /\ PoolIdle /\ CallIdle
NextVisLine ==
    \/ VisLineBreak
    \/ VisLineStep
    \/ VisLinePanic
    \/ VisLineWrap
SpecVisLine == InitVisLine /\ [][NextVisLine]_vars /\ WF_vars(NextVisLine)

(***************************************************************************)
(* PrnuAnalyzer::compare_patterns: the pixels it reads.  A get_pixel       *)
(* outside a pattern panics (image::ImageBuffer::get_pixel).               *)
(***************************************************************************)
PatternSizes == (1..4) \X (1..4)

\* The (x, y) of the first pair of loops, in order.
mean_loop(width, height) ==
    [k \in 1..(height * height) |-> <<(k - 1) % height, (k - 1) \div height>>]

\* The (x, y) of the second pair of loops.
correlation_loop(width, height) == (0..(width - 1)) \X (0..(height - 1))

compare_patterns(w1, h1, w2, h2) ==
    LET width == Min(w1, w2)
        height == Min(h1, h2)
        order == mean_loop(width, height)
        outside == {k \in 1..Len(order) : order[k][1] >= w1 \/ order[k][1] >= w2}
    IN IF outside = {}
       THEN [outcome |-> "returned",
             summed |-> SeqRange(order),
             read1 |-> SeqRange(order) \union correlation_loop(width, height),
             read2 |-> SeqRange(order) \union correlation_loop(width, height),
             fault |-> <<>>]
       ELSE LET k0 == CHOOSE k \in outside : \A j \in outside : k <= j
                before == {order[k] : k \in 1..(k0 - 1)}
            IN [outcome |-> "panic",
                summed |-> before,
                read1 |-> IF order[k0][1] >= w1 THEN before
                          ELSE before \union {order[k0]},
                read2 |-> before,
                fault |-> <<IF order[k0][1] >= w1 THEN 1 ELSE 2, order[k0]>>]

ComparePatterns ==
    \E p1 \in PatternSizes, p2 \in PatternSizes :
        Called("compare_patterns",
               [w1 |-> p1[1], h1 |-> p1[2], w2 |-> p2[1], h2 |-> p2[2]],
               compare_patterns(p1[1], p1[2], p2[1], p2[2]))

SpecPrnu == InitCalls /\ [][ComparePatterns]_vars

(***************************************************************************)
(* ResamplingDetector: find_period and estimate_resampling_factor.         *)
(* Autocorrelations and strengths are in hundredths, factors in tenths; a  *)
(* period is a lag, a whole number.                                        *)
(***************************************************************************)
ResamplingConfigDefault ==
    [window_size |-> 16, threshold |-> 30, min_factor |-> 5, max_factor |-> 20]

PeakLags == {1, 2, 3, 14, 15}
PeakHeights == {5, 40, 90}

\* compute_autocorrelation returns window_size values, the first of them 0:
\* here those with at most two non-zero lags.
Autocorrelations(window_size) ==
    {[i \in 1..window_size |->
         IF i - 1 = p THEN a ELSE IF i - 1 = q THEN b ELSE 0] :
       p \in PeakLags, q \in PeakLags, a \in PeakHeights, b \in PeakHeights}

NoPeriod == [some |-> FALSE]

\* The loop of find_period from lag i on; autocorr[i + 1] is the code's
\* autocorr[i].
RECURSIVE FindPeriodScan(_, _, _, _)
FindPeriodScan(autocorr, i, best_peak, best_period) ==
    IF i >= Len(autocorr) - 1
    THEN IF best_peak > 10
         THEN [some |-> TRUE, period |-> best_period, strength |-> best_peak]
         ELSE NoPeriod
    ELSE IF /\ autocorr[i + 1] > autocorr[i]
            /\ autocorr[i + 1] > autocorr[i + 2]
            /\ autocorr[i + 1] > best_peak
    THEN FindPeriodScan(autocorr, i + 1, autocorr[i + 1], i)
    ELSE FindPeriodScan(autocorr, i + 1, best_peak, best_period)

\* A find_period whose loop starts at lag 1.
find_period_from_lag_one(autocorr) ==
    IF Len(autocorr) < 3 THEN NoPeriod ELSE FindPeriodScan(autocorr, 1, 0, 0)

find_period(autocorr) ==
    IF Len(autocorr) < 3 THEN NoPeriod ELSE FindPeriodScan(autocorr, 2, 0, 0)

detect_periodic_patterns(h_autocorr, v_autocorr, cfg) ==
    LET h == find_period(h_autocorr)
        v == find_period(v_autocorr)
        hs == IF h.some /\ h.strength > cfg.threshold
              THEN <<[period |-> h.period, strength |-> h.strength,
                      direction |-> "horizontal"]>>
              ELSE <<>>
        vs == IF v.some /\ v.strength > cfg.threshold
              THEN <<[period |-> v.period, strength |-> v.strength,
                      direction |-> "vertical"]>>
              ELSE <<>>
    IN hs \o vs

\* Iterator::max_by returns the last of several equally strong patterns.
estimate_resampling_factor(patterns, cfg) ==
    IF patterns = <<>> THEN NoPeriod
    ELSE LET best == CHOOSE i \in 1..Len(patterns) :
                        /\ \A j \in 1..Len(patterns) :
                              patterns[j].strength <= patterns[i].strength
                        /\ \A j \in (i + 1)..Len(patterns) :
                              patterns[j].strength < patterns[i].strength
         IN IF /\ patterns[best].period * 10 >= cfg.min_factor
               /\ patterns[best].period * 10 <= cfg.max_factor
            THEN [some |-> TRUE, factor |-> patterns[best].period]
            ELSE NoPeriod

ResamplingDetect ==
    \E h \in Autocorrelations(ResamplingConfigDefault.window_size),
       v \in Autocorrelations(ResamplingConfigDefault.window_size) :
        LET patterns == detect_periodic_patterns(h, v, ResamplingConfigDefault)
        IN Called("resampling_detect",
                  [h_autocorr |-> h, v_autocorr |-> v,
                   config |-> ResamplingConfigDefault],
                  [periods |-> <<find_period(h), find_period(v)>>,
                   periodic_patterns |-> patterns,
                   estimated_factor |-> estimate_resampling_factor(
                                            patterns, ResamplingConfigDefault)])

SpecResampling == InitCalls /\ [][ResamplingDetect]_vars

(***************************************************************************)
(* Properties                                                              *)
(***************************************************************************)
(***************************************************************************)
(* C1: after DetectionResult::new and any add_manipulation calls,          *)
(* overall_score is the arithmetic mean of the confidences added so far    *)
(* (0 when there are none), is_manipulated holds exactly when that mean    *)
(* exceeds 0.3, and overall_confidence is from_score of the mean.          *)
(***************************************************************************)
C1_Aggregation ==
    /\ IF manipulations = <<>>
       THEN overall_score.num = 0
       ELSE overall_score.num * Len(manipulations)
               = SeqSum(Confidences(manipulations)) * overall_score.den
    /\ overall_score.den > 0
    /\ is_manipulated <=> (overall_score.num > 30 * overall_score.den)
    /\ overall_confidence = from_score(overall_score.num, overall_score.den)

\* Three manipulations whose mean is exactly 0.3: not manipulated, level Low.
C1_Witness ==
    /\ Len(manipulations) = 3
    /\ SeqSum(Confidences(manipulations)) = 90
    /\ ~is_manipulated
    /\ overall_confidence = "Low"

InImage(r) ==
    /\ r.x + r.width <= imgW /\ r.y + r.height <= imgH
    /\ r.width > 0 /\ r.height > 0

\* C2: every region an analyzer emits for a W x H image lies inside the image
\* and is not empty: x + width <= W, y + height <= H, width > 0, height > 0.
C2_RegionsInBounds ==
    outcome = Ok => \A i \in 1..Len(regions) : InImage(regions[i])

C5_min_dim(a) ==
    CASE a \in {"noise", "ela", "jpeg"} -> JpegBlock
      [] a = "dct" -> DctMinDim
      [] a = "copy_move" -> cfgBlock * 2
      [] a \in CheckedAnalyzers -> checked_min_dim(a, cfgBlock)
      [] OTHER -> 0

\* C5: an analyzer given an image with min(W, H) below its minimum dimension
\* returns ImageTooSmall(min_dim): no result, no other error, no underflow.
\* The minimum is the one the analyzer checks; NoiseAnalyzer, ElaAnalyzer and
\* JpegAnalyzer, which check none, are held to the 8 pixels of a JPEG block.
C5_TooSmallRejected ==
    (analyzer # "none" /\ Min(imgW, imgH) < C5_min_dim(analyzer))
        => outcome = ImageTooSmall(C5_min_dim(analyzer))


\* C6: the line create_visualization draws for a kept match reaches its end
\* point after finitely many loop iterations, so that detect returns.
C6_LineReachesEnd == <>(linePc = "done")

\* C7: two executions of detect on the same image with the same configuration
\* return the same match list, whatever order the hash groups are visited in.
C7_Deterministic ==
    (Len(cmResults) = 2 /\ cmResults[1].outcome = Ok /\ cmResults[2].outcome = Ok)
        => cmResults[1].matches = cmResults[2].matches

\* C8: merging is idempotent: the merger applied to its own output returns it
\* unchanged.
C8_MergeIdempotent == "twice" \in mergePc => mTwice = mOnce

\* C9: the merger returns the same set of regions for every permutation of
\* its input list.
C9_MergeOrderFree ==
    {"once", "permuted"} \subseteq mergePc => SeqRange(mPermuted) = SeqRange(mOnce)

C10_centre_dist2(m) ==
    LET e == match_line(m)
    IN (e[3] - e[1]) * (e[3] - e[1]) + (e[4] - e[2]) * (e[4] - e[2])

\* C10: the centres of source and target of every MatchPair of a result are at
\* Euclidean distance >= min_distance (compared as squares, with the centre
\* coordinates as create_visualization computes them). Every match list that
\* find_matches hands to detect is covered, whether or not the visualization
\* that follows lets detect return.
C10_MinDistance ==
    \A k \in 1..Len(cmResults) :
        \A i \in 1..Len(cmResults[k].matches) :
            C10_centre_dist2(cmResults[k].matches[i])
                >= cmCfg.min_distance * cmCfg.min_distance

\* find_matches has kept a match whose blocks are sqrt(8) apart: the truncated
\* root is 2, which passes min_distance = 2. (The line drawn for such a match
\* is a diagonal, so the outcome of that run is Overflow: see C6.)
C10_Witness ==
    /\ Len(cmResults) >= 1
    /\ cmCfg.min_distance = 2
    /\ \E i \in 1..Len(cmResults[1].matches) :
          /\ C10_centre_dist2(cmResults[1].matches[i]) = 8
          /\ distance(2, 2) = 2

InUnit(f) == 0 <= f.num /\ f.num <= f.den

\* C3: every confidence, score and probability of a result lies in [0, 1]: the
\* confidence of each manipulation, the overall_score derived from them and
\* the tampering probability of full_analysis.
C3_UnitInterval ==
    /\ \A i \in 1..Len(manipulations) :
          0 <= manipulations[i].confidence /\ manipulations[i].confidence <= 100
    /\ 0 <= overall_score.num /\ overall_score.num <= 100 * overall_score.den
    /\ InUnit(tampering_ability)

\* C4: TamperingDetector::detect and full_analysis return a result when some
\* constituent analyzer succeeds on the image, and the first error when every
\* constituent fails.
C4_ErrorsAbsorbed ==
    analyzer \in {"tampering", "full_analysis"} =>
        IF \E i \in 1..Len(calls) : calls[i].outcome = Ok
        THEN outcome = Ok
        ELSE outcome = calls[1].outcome

C11_overlap(a, b) ==
    /\ a.x < b.x + b.width /\ b.x < a.x + a.width
    /\ a.y < b.y + b.height /\ b.y < a.y + a.height

C11_clash(m, k) ==
    \/ C11_overlap(m.source, k.source) \/ C11_overlap(m.source, k.target)
    \/ C11_overlap(m.target, k.source) \/ C11_overlap(m.target, k.target)

\* C11: the matches filter_matches returns are candidates in non-increasing
\* similarity, the regions of two different returned matches never overlap,
\* and every discarded candidate overlaps a kept match of at least its
\* similarity.
C11_GreedySelection ==
    \A r \in 1..Len(cmResults) :
        LET ms == cmResults[r].matches
            cands == Candidates(cmFeatures, Ascending(GroupKeys(cmFeatures)), cmCfg)
        IN /\ \A i \in 1..Len(ms) : \E c \in 1..Len(cands) : cands[c] = ms[i]
           /\ \A i, j \in 1..Len(ms) :
                 i < j => /\ ms[i].similarity >= ms[j].similarity
                          /\ ~C11_clash(ms[i], ms[j])
           /\ \A c \in 1..Len(cands) :
                 (\A i \in 1..Len(ms) : ms[i] # cands[c])
                    => \E i \in 1..Len(ms) :
                          /\ C11_clash(cands[c], ms[i])
                          /\ ms[i].similarity >= cands[c].similarity

\* Two matches were kept and a candidate of similarity 1.0 was discarded.
C11_Witness ==
    /\ Len(cmResults) >= 1
    /\ Len(cmResults[1].matches) = 2
    /\ \E c \in SeqRange(Candidates(cmFeatures, Ascending(GroupKeys(cmFeatures)), cmCfg)) :
          /\ c.similarity = 100
          /\ \A i \in 1..2 : cmResults[1].matches[i] # c

\* C12: CopyMoveDetector::new returns InvalidParameter exactly when block_size
\* is outside [4, 64] or similarity_threshold is outside [0, 1].
C12_NewValidates ==
    analyzer = "copy_move_new" =>
        (outcome = [kind |-> "InvalidParameter"]
            <=> (\/ cmCfg.block_size < 4 \/ cmCfg.block_size > 64
                 \/ cmCfg.similarity_threshold < 0
                 \/ cmCfg.similarity_threshold > 100))

\* C13: detect returns ImageTooSmall(2 * block_size) exactly when the width or
\* the height is below 2 * block_size, and then returns no match; 50 x 50 with
\* block_size 32 gives ImageTooSmall(64).
C13_TooSmall ==
    analyzer = "copy_move" =>
        /\ (imgW < 2 * cmCfg.block_size \/ imgH < 2 * cmCfg.block_size)
              => /\ outcome = [kind |-> "ImageTooSmall", min |-> 2 * cmCfg.block_size]
                 /\ cmResults[1].matches = <<>>
        /\ (imgW >= 2 * cmCfg.block_size /\ imgH >= 2 * cmCfg.block_size)
              => outcome.kind # "ImageTooSmall"

\* The 50 x 50 image with block_size 32 was rejected with ImageTooSmall(64).
C13_Witness ==
    /\ analyzer = "copy_move"
    /\ imgW = 50 /\ imgH = 50 /\ cmCfg.block_size = 32
    /\ outcome = [kind |-> "ImageTooSmall", min |-> 64]

\* the bucket the specification gives a confidence of c hundredths
C14_level(c) ==
    CASE c < 20 -> "None"
      [] c >= 20 /\ c < 40 -> "Low"
      [] c >= 40 /\ c < 60 -> "Medium"
      [] c >= 60 /\ c < 80 -> "High"
      [] c >= 80 -> "VeryHigh"

\* C14: from_score maps a score below 0.2 to None, below 0.4 to Low, below 0.6
\* to Medium, below 0.8 to High and any other to VeryHigh, and every
\* manipulation emitted by the splicing or the tampering detector carries the
\* level from_score gives its confidence.
C14_LevelFromScore ==
    /\ \A c \in 0..130 : from_score(c, 1) = C14_level(c)
    /\ analyzer \in {"splicing", "tampering"} =>
          \A i \in 1..Len(manipulations) :
              manipulations[i].level = C14_level(manipulations[i].confidence)

\* The tampering detector emitted a retouching manipulation whose confidence
\* is exactly 0.8 (VeryHigh) next to a splicing manipulation of 0.75 (High).
C14_Witness ==
    /\ analyzer = "tampering" /\ outcome = Ok
    /\ \E i, j \in 1..Len(manipulations) :
          /\ manipulations[i].kind = "Retouching"
          /\ manipulations[i].confidence = 80
          /\ manipulations[i].level = "VeryHigh"
          /\ manipulations[j].kind = "Splicing"
          /\ manipulations[j].confidence = 75
          /\ manipulations[j].level = "High"

\* extract_block_feature applied to the positions ps one after the other, from
\* the i-th on
RECURSIVE C15_sequential(_, _, _)
C15_sequential(ps, blocks, i) ==
    IF i > Len(ps) THEN <<>>
    ELSE (IF blocks[i] = 0 THEN <<>>
          ELSE <<[x |-> ps[i][1], y |-> ps[i][2], sig |-> blocks[i]]>>)
            \o C15_sequential(ps, blocks, i + 1)

C15_features ==
    C15_sequential(positions(imgW, imgH, cmCfg.block_size), poolBlocks, 1)

\* C15: for every schedule of the worker pool the collected features are those
\* of applying extract_block_feature to the position list sequentially (none
\* lost, duplicated or mixed up), and the match result is one that the
\* sequentially extracted features give, whatever the order in which the
\* workers finished.
C15_PoolSequential ==
    /\ poolPc \in {"collected", "done"} => cmFeatures = C15_features
    /\ poolPc = "done" =>
          cmResults[1] \in {copy_move_detect(imgW, imgH, cmCfg, C15_features, o) :
                               o \in GroupOrders(C15_features)}

\* Two workers finished in the reverse order of their positions, both blocks
\* gave a feature, and detect found their match.
C15_Witness ==
    /\ poolPc = "done"
    /\ \E i, j \in 1..Len(poolFinished) :
          /\ i < j /\ poolFinished[i] > poolFinished[j]
          /\ poolBlocks[poolFinished[i]] # 0 /\ poolBlocks[poolFinished[j]] # 0
    /\ cmResults[1].matches # <<>>

\* C16: the manipulations TamperingDetector::detect returns are listed by
\* non-increasing confidence, whatever their kinds.
C16_Ranked ==
    (analyzer = "tampering" /\ outcome = Ok) =>
        \A i, j \in 1..Len(manipulations) :
            i < j => manipulations[i].confidence >= manipulations[j].confidence

\* how many of the four signals (colour, edge, noise, ELA) flag the colour
\* block c
C17_flags(c, list) == IF Overlapping(c, list) > 0 THEN 1 ELSE 0
C17_signals(c) ==
    1 + C17_flags(c, signals.edge) + C17_flags(c, signals.noise)
      + C17_flags(c, signals.ela)

\* C17: the splicing detector emits a manipulation only for a colour block
\* that at least two distinct signals among colour, edge, noise and ELA flag,
\* where the edge signal is a block flagged by the edge-regularity analysis
\* that overlaps the colour block.
C17_Corroborated ==
    (analyzer = "splicing" /\ outcome = Ok) =>
        \A i \in 1..Len(manipulations) :
            \E k \in 1..Len(signals.color) :
                /\ splicing_regions_overlap(signals.color[k], manipulations[i].region)
                /\ C17_signals(signals.color[k]) >= 2

\* two regions share a pixel
C18_overlap(a, b) ==
    \E px \in a.x..(a.x + a.width - 1), py \in a.y..(a.y + a.height - 1) :
        /\ b.x <= px /\ px < b.x + b.width
        /\ b.y <= py /\ py < b.y + b.height

C18_splicing == {i \in 1..Len(manipulations) : manipulations[i].kind = "Splicing"}

\* C18: no two Splicing manipulations that one detect call returns overlap,
\* and each of them has an area of at least min_region_size: the detections
\* are merged until none overlap and then filtered by area.
C18_Disjoint ==
    (analyzer \in {"splicing", "tampering"} /\ outcome = Ok) =>
        /\ \A i, j \in C18_splicing :
              i # j => ~ C18_overlap(manipulations[i].region, manipulations[j].region)
        /\ \A i \in C18_splicing :
              manipulations[i].region.width * manipulations[i].region.height
                  >= MinRegionSize

\* The splicing detector returned two manipulations, for two blocks that touch.
C18_Witness ==
    /\ analyzer = "splicing" /\ outcome = Ok
    /\ Len(manipulations) = 2
    /\ manipulations[1].region = Region(0, 0, 16, 16)
    /\ manipulations[2].region = Region(16, 0, 16, 16)

\* region a lies inside region b
C19_inside(a, b) ==
    /\ b.x <= a.x /\ a.x + a.width <= b.x + b.width
    /\ b.y <= a.y /\ a.y + a.height <= b.y + b.height

\* C19: the merger of every analyzer replaces two regions by their
\* axis-aligned bounding box, so that every region handed to the merger lies
\* inside one of the regions it returns.
C19_InputsCovered ==
    analyzer \in {"benford", "pca"} =>
        \A i \in 1..Len(mInput) :
            \E k \in 1..Len(mOnce) : C19_inside(mInput[i], mOnce[k])

\* the blocks of the image in the order of the measures, and whether a
\* Retouching manipulation was emitted for the block at b
C20_blocks == RowMajor(BlockGrid(imgW, imgH, config.block_size))
C20_emitted(b) ==
    \E k \in 1..Len(manipulations) :
        /\ manipulations[k].kind = "Retouching"
        /\ manipulations[k].region.x = b[1]
        /\ manipulations[k].region.y = b[2]

\* C20: whatever the sensitivity and min_confidence, a Retouching manipulation
\* is emitted for a block exactly when its texture z-score exceeds
\* 2 * sensitivity or its blur z-score exceeds 2.5 * sensitivity.
C20_RetouchingExactly ==
    analyzer = "retouching" =>
        \A i \in 1..Len(C20_blocks) :
            C20_emitted(C20_blocks[i])
                <=> (\/ z_score_above(signals.texture, i, 4 * config.sensitivity)
                     \/ z_score_above(signals.blur, i, 5 * config.sensitivity))

\* the variance of the differences ds (each ds[i] / 3) about their own mean
C21_variance(ds) ==
    LET n == Len(ds)
    IN [num |-> SeqSum([i \in 1..n |->
                   (n * ds[i] - SeqSum(ds)) * (n * ds[i] - SeqSum(ds))]),
        den |-> 9 * n * n * n]

\* C21: mean_difference is the arithmetic mean and std_deviation the standard
\* deviation of the unamplified per-pixel differences whose maximum is
\* max_difference, so that 0 <= mean_difference <= max_difference whatever the
\* image and the amplification.
C21_ElaStatistics ==
    analyzer = "ela_statistics" =>
        LET ds == callArgs.differences
            mean == callRet.mean_difference
            max == callRet.max_difference
        IN /\ mean.num * 3 * Len(ds) = SeqSum(ds) * mean.den
           /\ callRet.variance = C21_variance(ds)
           /\ 0 <= mean.num
           /\ mean.num * max.den <= max.num * mean.den

\* the swept qualities below 95, and those at which the average difference is
\* the smallest
C22_swept == {q \in GhostQualities : q < 95}
C22_minimal(avg) == {q \in C22_swept : \A p \in C22_swept : avg[q] <= avg[p]}

\* C22: ghost_detected holds exactly when the smallest average difference over
\* the swept qualities 60, 65, .., 90 is below 5, and ghost_map is present
\* exactly when ghost_detected and then is the map of a minimizing quality.
C22_GhostDetected ==
    analyzer = "jpeg_ghost" =>
        /\ callRet.ghost_detected
              <=> (\E q \in C22_swept : callArgs[q] < 5)
        /\ callRet.ghost_map.some <=> callRet.ghost_detected
        /\ callRet.ghost_map.some =>
              callRet.ghost_map.quality \in C22_minimal(callArgs)

\* the origins of the 8x8 grid blocks that lie wholly inside a W x H image
C23_grid(W, H) ==
    {<<8 * i, 8 * j>> : i \in 0..((W \div 8) - 1), j \in 0..((H \div 8) - 1)}

\* C23: DctAnalyzer transforms exactly the blocks of the 8x8 grid that lie
\* wholly inside the image, floor(W/8) * floor(H/8) of them, for non-square
\* images too, and every region it reports lies in a block row of the image.
C23_DctGrid ==
    analyzer = "dct_blocks" =>
        LET W == callArgs.width
            H == callArgs.height
        IN /\ Len(callRet.blocks) = (W \div 8) * (H \div 8)
           /\ SeqRange(callRet.blocks) = C23_grid(W, H)
           /\ \A i \in 1..Len(callRet.regions) :
                 callRet.regions[i].y + callRet.regions[i].height <= H

\* C24: rgb_to_gray gives every pixel the value 0.299 R + 0.587 G + 0.114 B
\* rounded to the nearest integer of 0..255; a weighted sum of 0.886 becomes 1.
C24_GrayRounded ==
    analyzer = "rgb_to_gray" =>
        LET sum == 299 * callArgs[1] + 587 * callArgs[2] + 114 * callArgs[3]
        IN /\ callRet \in 0..255
           /\ 2 * (1000 * callRet - sum) <= 1000
           /\ 2 * (sum - 1000 * callRet) <= 1000

\* C25: for every number n >= 1 of patches, the covariance is accumulated from
\* at most 5000 patches, taken at a uniform stride over the patch list.
C25_AtMost5000 ==
    analyzer = "compute_pca" =>
        /\ callRet.sample_count >= 1
        /\ callRet.sample_count <= 5000

\* the standard kernels Gx = [-1 0 1; -2 0 2; -1 0 1] and
\* Gy = [-1 -2 -1; 0 0 0; 1 2 1] applied to the neighbourhood p
C26_kernel_x == [o \in Offsets |-> o[1] * (IF o[2] = 0 THEN 2 ELSE 1)]
C26_kernel_y == [o \in Offsets |-> o[2] * (IF o[1] = 0 THEN 2 ELSE 1)]
RECURSIVE C26_apply(_, _, _)
C26_apply(kernel, p, os) ==
    IF os = {} THEN 0
    ELSE LET o == CHOOSE a \in os : TRUE
         IN kernel[o] * p[o] + C26_apply(kernel, p, os \ {o})
C26_standard(p) ==
    <<C26_apply(C26_kernel_x, p, Offsets), C26_apply(C26_kernel_y, p, Offsets)>>

\* C26: the Sobel gradients of SplicingDetector, ShadowAnalyzer and
\* LuminanceGradientAnalyzer are those of the standard kernels: on every
\* interior neighbourhood they give the same gx and the same gy.
C26_SobelStandard ==
    analyzer = "sobel" =>
        /\ callRet.luminance = C26_standard(callArgs)
        /\ callRet.splicing = C26_standard(callArgs)
        /\ callRet.shadow = C26_standard(callArgs)


C27_components(mask) == {shadow_fill(mask, {}, {p}) : p \in mask}

C27_qualifies(c, a) ==
    /\ Cardinality(c) >= a.config.min_shadow_size
    /\ \E p \in c : is_shadow_edge(a.mask, a.width, a.height, p) /\ p \in a.strong

C27_regions_of(c) ==
    {i \in 1..Len(callRet) : callRet[i] = shadow_bbox(c)}

C27_AtMostOne ==
    analyzer = "analyze_shadow_regions" =>
        /\ Len(callRet) <= Cardinality(C27_components(callArgs.mask))
        /\ \A i \in 1..Len(callRet) :
              \E c \in C27_components(callArgs.mask) : callRet[i] = shadow_bbox(c)
        /\ \A c \in C27_components(callArgs.mask) :
              Cardinality(C27_regions_of(c))
                  <= Cardinality({d \in C27_components(callArgs.mask) :
                                     shadow_bbox(d) = shadow_bbox(c)})

\* C27: analyze_shadow_regions yields at most one ShadowRegion per 4-connected
\* component of the cleaned shadow mask, and one for every component that has
\* at least min_shadow_size pixels and a boundary pixel whose gradient
\* magnitude is above gradient_threshold, wherever the component lies on the
\* sampling grid and whatever the shape of its bounding box.
C27_ShadowRegions ==
    /\ C27_AtMostOne
    /\ analyzer = "analyze_shadow_regions" =>
          \A c \in C27_components(callArgs.mask) :
              C27_qualifies(c, callArgs) => C27_regions_of(c) # {}


\* In the walks of SpecVisLine only a line of length zero ends.
C28_OnlyEmptyLinesEnd ==
    linePc = "done" => (lineEnds[1] = lineEnds[3] /\ lineEnds[2] = lineEnds[4])

\* C28: visualize_copy_move terminates for every copy-move result: the line
\* draw_line walks from a match's source centre to its target centre reaches
\* the end point after finitely many steps, whether the line is horizontal,
\* vertical or diagonal.
C28_VisualizeTerminates == (linePc = "loop") ~> (linePc = "done")


C29_common(a) == (0..(Min(a.w1, a.w2) - 1)) \X (0..(Min(a.h1, a.h2) - 1))

\* When the common area is at least as wide as high, no read leaves it.
C29_NoFaultWhenWide ==
    (analyzer = "compare_patterns"
        /\ Min(callArgs.w1, callArgs.w2) >= Min(callArgs.h1, callArgs.h2)) =>
        /\ callRet.outcome = "returned"
        /\ callRet.read1 \subseteq C29_common(callArgs)
        /\ callRet.read2 \subseteq C29_common(callArgs)

\* When the common area is square, the means are over the whole of it.
C29_MeanWhenSquare ==
    (analyzer = "compare_patterns"
        /\ Min(callArgs.w1, callArgs.w2) = Min(callArgs.h1, callArgs.h2)) =>
        callRet.summed = C29_common(callArgs)

\* C29: compare_patterns, for two patterns of any sizes, reads only pixels
\* inside the common area min(w1, w2) x min(h1, h2) of both patterns, with no
\* access outside a pattern when the common height exceeds the common width,
\* and computes both means over every pixel of exactly that area.
C29_ReadsCommonArea ==
    analyzer = "compare_patterns" =>
        /\ callRet.outcome = "returned"
        /\ callRet.read1 \subseteq C29_common(callArgs)
        /\ callRet.read2 \subseteq C29_common(callArgs)
        /\ callRet.summed = C29_common(callArgs)


C30_strongest(patterns) ==
    {i \in 1..Len(patterns) :
        \A j \in 1..Len(patterns) : patterns[j].strength <= patterns[i].strength}

\* C30: with the default configuration (factors 0.5 to 2.0, window_size 16)
\* the estimated_factor of ResamplingDetector is absent or exactly 2: the
\* periods find_period returns are whole lags p with 2 <= p <= window_size - 2,
\* and estimate_resampling_factor keeps the period of the strongest pattern
\* only when it lies between min_factor and max_factor.
C30_FactorAbsentOrTwo ==
    analyzer = "resampling_detect" =>
        /\ \A k \in 1..Len(callRet.periods) :
              callRet.periods[k].some =>
                  /\ callRet.periods[k].period >= 2
                  /\ callRet.periods[k].period <= callArgs.config.window_size - 2
        /\ callRet.estimated_factor.some =>
              /\ callRet.estimated_factor.factor = 2
              /\ \E i \in C30_strongest(callRet.periodic_patterns) :
                    callRet.periodic_patterns[i].period
                        = callRet.estimated_factor.factor
        /\ (/\ callRet.periodic_patterns # <<>>
            /\ \A i \in C30_strongest(callRet.periodic_patterns) :
                  /\ callRet.periodic_patterns[i].period * 10
                        >= callArgs.config.min_factor
                  /\ callRet.periodic_patterns[i].period * 10
                        <= callArgs.config.max_factor)
              => callRet.estimated_factor.some

\* Two patterns, the stronger at lag 2: the factor 2 is reported.
C30_Witness ==
    /\ analyzer = "resampling_detect"
    /\ Len(callRet.periodic_patterns) = 2
    /\ callRet.periodic_patterns[1].period = 2
    /\ callRet.periodic_patterns[2].period = 14
    /\ callRet.periodic_patterns[1].strength > callRet.periodic_patterns[2].strength
    /\ callRet.estimated_factor = [some |-> TRUE, factor |-> 2]

====
